---- MODULE Spec2Model ----
(***************************************************************************)
(* Model of the chi-square notebook (src/unnamed/part_000) and of the       *)
(* regression notebook (src/Data Analysis with Python/DA4.ipynb).          *)
(*                                                                         *)
(* The notebook's cells call scipy.stats.chi2_contingency with default     *)
(* arguments (correction=True) and numpy; these library calls are modelled *)
(* by what they compute, over exact rationals instead of float64:          *)
(*   - a float is a record [n, d]; d = 0 marks a non-finite value, and     *)
(*     0/0 is not-a-number;                                                *)
(*   - np.sqrt(x) is kept as its radicand, [sq |-> x], and compared by     *)
(*     squaring;                                                           *)
(*   - a p-value chi2.sf(x, dof) is kept as [kind |-> "sf", dof, x] and    *)
(*     compared with a level a through the critical value of the           *)
(*     chi-square distribution table (p < a  iff  x > critical(dof, a)).   *)
(***************************************************************************)
EXTENDS Integers, Sequences, FiniteSets, TLC

VARIABLES observed, res, assoc,      \* one analysis: table, test result, CELL 12 values
          pv, printed,               \* one interpretation: p-value, printed result
          ns, out, exc,              \* the notebook kernel: names, last output, last error
          train,                     \* regression: the training data X, y
          model,                     \* the fitted LinearRegression
          ridge_model,               \* the fitted Ridge
          pred,                      \* the last predictions
          coefs_ridge_path,          \* the coefficients collected by the ridge path loop
          ridge_path_model,          \* the last Ridge fitted by the ridge path loop
          poly,                      \* the last PolynomialFeatures transform
          scaler_for_ridge,          \* the StandardScaler
          X_train_scaled,            \* its transform of the training matrix
          X_test_scaled,             \* its transform of a test matrix
          refit,                     \* a second fit on the same data
          notebook, ran              \* a notebook run: which notebook, the cells run so far

chivars == <<observed, res, assoc, pv, printed, ns, out, exc>>

regvars == <<train, model, ridge_model, pred, coefs_ridge_path, ridge_path_model, poly>>

auxvars == <<scaler_for_ridge, X_train_scaled, X_test_scaled, refit, notebook, ran>>

vars == <<observed, res, assoc, pv, printed, ns, out, exc,
          train, model, ridge_model, pred, coefs_ridge_path, ridge_path_model,
          poly, scaler_for_ridge, X_train_scaled, X_test_scaled, refit,
          notebook, ran>>

(***************************************************************************)
(* Bounds                                                                  *)
(***************************************************************************)
MaxCount == 3       \* largest cell count of the enumerated tables
PGrid == 100        \* p-values k/PGrid, k in 0..PGrid, are interpreted

(***************************************************************************)
(* float64 as exact rationals                                              *)
(***************************************************************************)
Abs(x) == IF x < 0 THEN -x ELSE x

Sign(x) == IF x < 0 THEN -1 ELSE IF x > 0 THEN 1 ELSE 0

RECURSIVE Gcd(_, _)
Gcd(a, b) == IF b = 0 THEN a ELSE Gcd(b, a % b)

NaN == [n |-> 0, d |-> 0]

IsNaN(a) == a.d = 0

\* n/d in lowest terms, d > 0; a zero divisor gives a non-finite value
Rat(n, d) ==
    IF d = 0 THEN [n |-> Sign(n), d |-> 0]
    ELSE LET g == Gcd(Abs(n), Abs(d))
         IN  [n |-> (Sign(d) * n) \div g, d |-> Abs(d) \div g]

Int2F(k) == [n |-> k, d |-> 1]

FAdd(a, b) ==
    IF a.d = 0 \/ b.d = 0 THEN NaN
    ELSE LET g == Gcd(a.d, b.d)
         IN  Rat(a.n * (b.d \div g) + b.n * (a.d \div g), (a.d \div g) * b.d)

FNeg(a) == [n |-> -a.n, d |-> a.d]

FSub(a, b) == FAdd(a, FNeg(b))

FMul(a, b) ==
    IF a.d = 0 \/ b.d = 0 THEN NaN
    ELSE LET g1 == Gcd(Abs(a.n), b.d)
             g2 == Gcd(Abs(b.n), a.d)
         IN  Rat((a.n \div g1) * (b.n \div g2), (a.d \div g2) * (b.d \div g1))

\* x / 0 does not raise for numpy floats: 0/0 is nan, otherwise +-inf
FDiv(a, b) ==
    IF a.d = 0 \/ b.d = 0 THEN NaN
    ELSE IF b.n = 0 THEN [n |-> Sign(a.n), d |-> 0]
    ELSE FMul(a, [n |-> Sign(b.n) * b.d, d |-> Abs(b.n)])

\* every comparison with a nan is false
FLess(a, b) == a.d # 0 /\ b.d # 0 /\ a.n * b.d < b.n * a.d

FLeq(a, b) == a.d # 0 /\ b.d # 0 /\ a.n * b.d <= b.n * a.d

FEq(a, b) == a.d # 0 /\ b.d # 0 /\ a = b

FAbs(a) == [n |-> Abs(a.n), d |-> a.d]

FMin(a, b) == IF FLess(b, a) THEN b ELSE a

FSign(a) == Int2F(Sign(a.n))

\* |a - c| <= tol
Within(a, c, tol) == FLeq(FAbs(FSub(a, c)), tol)

\* np.sqrt, kept as the radicand
np_sqrt(x) == [sq |-> IF x.d # 0 /\ x.n < 0 THEN NaN ELSE x]

(***************************************************************************)
(* Contingency tables: a sequence of rows, each a sequence of counts       *)
(***************************************************************************)
RECURSIVE SumSeq(_)
SumSeq(s) == IF s = <<>> THEN 0 ELSE s[1] + SumSeq(Tail(s))

NRows(t) == Len(t)

NCols(t) == IF t = <<>> THEN 0 ELSE Len(t[1])

size(t) == NRows(t) * NCols(t)

RowTotal(t, i) == SumSeq(t[i])

ColTotal(t, j) == SumSeq([i \in 1..NRows(t) |-> t[i][j]])

GrandTotal(t) == SumSeq([i \in 1..NRows(t) |-> RowTotal(t, i)])

Cells(t) == (1..NRows(t)) \X (1..NCols(t))

\* sum of a table of floats, row by row
RECURSIVE FSumSeq(_)
FSumSeq(s) == IF s = <<>> THEN Int2F(0) ELSE FAdd(s[1], FSumSeq(Tail(s)))

FSumTable(f) == FSumSeq([i \in 1..Len(f) |-> FSumSeq(f[i])])

(***************************************************************************)
(* scipy.stats.chi2_contingency(observed), default arguments               *)
(***************************************************************************)
\* the column total taken for the row total
expected_freq_colcol(t) ==
    [i \in 1..NRows(t) |->
        [j \in 1..NCols(t) |->
            FDiv(Int2F(ColTotal(t, j) * ColTotal(t, j)), Int2F(GrandTotal(t)))]]

\* E[i][j] = row total * column total / grand total
expected_freq(t) ==
    [i \in 1..NRows(t) |->
        [j \in 1..NCols(t) |->
            FDiv(Int2F(RowTotal(t, i) * ColTotal(t, j)), Int2F(GrandTotal(t)))]]

\* the number of columns taken for the number of rows
degrees_of_freedom_cols(t) == (NCols(t) - 1) * (NCols(t) - 1)

\* df = (r - 1) * (c - 1), computed as size - sum(shape) + ndim - 1
degrees_of_freedom(t) == size(t) - (NRows(t) + NCols(t)) + 2 - 1

Half == Rat(1, 2)

\* Yates' continuity correction: each count moves towards its expected value
\* by min(0.5, |expected - observed|)
yates(t, e) ==
    [i \in 1..NRows(t) |->
        [j \in 1..NCols(t) |->
            LET diff == FSub(e[i][j], Int2F(t[i][j]))
            IN  FAdd(Int2F(t[i][j]), FMul(FMin(Half, FAbs(diff)), FSign(diff)))]]

\* the counts as floats, corrected when the default correction applies
corrected_observed(t, e, dof) ==
    IF dof = 1 THEN yates(t, e)
    ELSE [i \in 1..NRows(t) |-> [j \in 1..NCols(t) |-> Int2F(t[i][j])]]

\* Pearson's statistic: the sum over all cells of (O - E)^2 / E
pearson(o, e) ==
    FSumTable([i \in 1..Len(o) |->
        [j \in 1..Len(o[i]) |->
            LET dv == FSub(o[i][j], e[i][j])
            IN  FDiv(FMul(dv, dv), e[i][j])]])

\* the upper tail of the chi-square distribution at x, kept symbolic
chi2_sf(x, dof) == [kind |-> "sf", dof |-> dof, x |-> x]

exact_p(v) == [kind |-> "exact", val |-> v]

\* the chi-square distribution table: the value x with chi2.sf(x, dof) = a
critical(dof, a) ==
    CASE dof = 1 /\ a = Rat(1, 20)    -> Rat(3841, 1000)
      [] dof = 2 /\ a = Rat(1, 20)    -> Rat(5991, 1000)
      [] dof = 4 /\ a = Rat(1, 20)    -> Rat(9488, 1000)
      [] dof = 6 /\ a = Rat(1, 20)    -> Rat(12592, 1000)
      [] dof = 1 /\ a = Rat(1, 10000) -> Rat(15137, 1000)
      [] dof = 2 /\ a = Rat(1, 10000) -> Rat(18421, 1000)
      [] dof = 4 /\ a = Rat(1, 10000) -> Rat(23513, 1000)
      [] dof = 6 /\ a = Rat(1, 10000) -> Rat(27856, 1000)

\* p < a
PLess(p, a) ==
    IF p.kind = "exact" THEN FLess(p.val, a)
    ELSE FLess(critical(p.dof, a), p.x)

\* p >= a
PGeq(p, a) ==
    IF p.kind = "exact" THEN FLeq(a, p.val)
    ELSE FLeq(p.x, critical(p.dof, a))

\* p > a
PGreater(p, a) ==
    IF p.kind = "exact" THEN FLess(a, p.val)
    ELSE FLess(p.x, critical(p.dof, a))

ValueError(msg) == [status |-> "ValueError", msg |-> msg]

has_negative(t) == \E c \in Cells(t) : t[c[1]][c[2]] < 0

\* an expected frequency below 1 taken for a fatal one
has_expected_below_one(e) ==
    \E i \in 1..Len(e) : \E j \in 1..Len(e[i]) : FLess(e[i][j], Int2F(1))

has_zero_expected(e) ==
    \E i \in 1..Len(e) : \E j \in 1..Len(e[i]) : FEq(e[i][j], Int2F(0))

\* a table with one row or one column: observed = expected, statistic 0
degenerate_result_raises(e) == ValueError("degenerate table")

degenerate_result(e) ==
    [status |-> "ok", chi2 |-> Int2F(0), p |-> exact_p(Int2F(1)),
     dof |-> 0, expected |-> e]

\* the test on a table without negative counts
chi2_nonnegative(t) ==
    IF size(t) = 0
    THEN ValueError("no data")
    ELSE LET e == expected_freq(t)
             dof == degrees_of_freedom(t)
         IN  IF has_zero_expected(e)
             THEN ValueError("zero expected frequency")
             ELSE IF dof = 0
             THEN degenerate_result(e)
             ELSE LET stat == pearson(corrected_observed(t, e, dof), e)
                  IN  [status |-> "ok", chi2 |-> stat, p |-> chi2_sf(stat, dof),
                       dof |-> dof, expected |-> e]

\* the test without its check for negative counts
chi2_contingency_unchecked(t) == chi2_nonnegative(t)

chi2_contingency(t) ==
    IF has_negative(t)
    THEN ValueError("negative value")
    ELSE chi2_nonnegative(t)

(***************************************************************************)
(* CELL 12: phi and Cramer V from a table and its statistic               *)
(***************************************************************************)
Min2(a, b) == IF a < b THEN a ELSE b

\* CELL 12 with min_dim_sd = min(shape), the - 1 forgotten
cramers_v_min_dim(t, chi2_stat) ==
    LET n_sd == GrandTotal(t)
        min_dim_sd == Min2(NRows(t), NCols(t))
    IN  [n_sd |-> n_sd,
         phi_sd |-> np_sqrt(FDiv(chi2_stat, Int2F(n_sd))),
         min_dim_sd |-> min_dim_sd,
         cramers_v_sd |-> IF min_dim_sd = 0 THEN [sq |-> NaN]
                          ELSE np_sqrt(FDiv(chi2_stat, Int2F(n_sd * min_dim_sd))),
         zerodiv |-> (IF n_sd = 0 THEN {"phi_sd"} ELSE {})
                     \cup (IF min_dim_sd # 0 /\ n_sd * min_dim_sd = 0
                           THEN {"cramers_v_sd"} ELSE {})]

\* CELL 12 with the sample size left out of Cramer's V
cramers_v_no_n(t, chi2_stat) ==
    LET n_sd == GrandTotal(t)
        min_dim_sd == Min2(NRows(t), NCols(t)) - 1
    IN  [n_sd |-> n_sd,
         phi_sd |-> np_sqrt(FDiv(chi2_stat, Int2F(n_sd))),
         min_dim_sd |-> min_dim_sd,
         cramers_v_sd |-> IF min_dim_sd = 0 THEN [sq |-> NaN]
                          ELSE np_sqrt(FDiv(chi2_stat, Int2F(min_dim_sd))),
         zerodiv |-> IF n_sd = 0 THEN {"phi_sd"} ELSE {}]

\* CELL 12 without its min_dim_sd == 0 branch
cramers_v_unguarded(t, chi2_stat) ==
    LET n_sd == GrandTotal(t)
        min_dim_sd == Min2(NRows(t), NCols(t)) - 1
    IN  [n_sd |-> n_sd,
         phi_sd |-> np_sqrt(FDiv(chi2_stat, Int2F(n_sd))),
         min_dim_sd |-> min_dim_sd,
         cramers_v_sd |-> np_sqrt(FDiv(chi2_stat, Int2F(n_sd * min_dim_sd))),
         zerodiv |-> (IF n_sd = 0 THEN {"phi_sd"} ELSE {})
                     \cup (IF n_sd * min_dim_sd = 0 THEN {"cramers_v_sd"} ELSE {})]

cramers_v(t, chi2_stat) ==
    LET n_sd == GrandTotal(t)
        phi_sd == np_sqrt(FDiv(chi2_stat, Int2F(n_sd)))
        min_dim_sd == Min2(NRows(t), NCols(t)) - 1
    IN  [n_sd |-> n_sd,
         phi_sd |-> phi_sd,
         min_dim_sd |-> min_dim_sd,
         cramers_v_sd |-> IF min_dim_sd = 0 THEN [sq |-> NaN]
                          ELSE np_sqrt(FDiv(chi2_stat, Int2F(n_sd * min_dim_sd))),
         zerodiv |-> (IF n_sd = 0 THEN {"phi_sd"} ELSE {})
                     \cup (IF min_dim_sd # 0 /\ n_sd * min_dim_sd = 0
                           THEN {"cramers_v_sd"} ELSE {})]

(***************************************************************************)
(* Interpretation branch of the test cells                                 *)
(***************************************************************************)
alpha == Rat(1, 20)

\* the branch taken on p <= alpha
interpretation_leq(p_value, a) ==
    IF PGreater(p_value, a) THEN "Fail to reject the null hypothesis"
    ELSE "Reject the null hypothesis"

interpretation(p_value, a) ==
    IF PLess(p_value, a) THEN "Reject the null hypothesis"
    ELSE "Fail to reject the null hypothesis"

(***************************************************************************)
(* The tables of the notebook (CELL 2, CELL 4, CELL 6)                     *)
(***************************************************************************)
observed_gender_product == << <<20, 30>>, <<25, 25>> >>

observed_smoking_disease == << <<50, 30>>, <<20, 100>> >>

observed_education_news == << <<150, 60, 30>>, <<200, 40, 20>>, <<100, 20, 15>> >>

(***************************************************************************)
(* CELL 9, CELL 10: the survey records and their cross-tabulation          *)
(***************************************************************************)
data ==
    [Region |-> <<"North", "South", "East", "West", "North", "South", "East",
                  "West", "North", "South", "East", "West", "North", "South",
                  "East", "North", "South", "West">>,
     Product_Choice |-> <<"A", "B", "A", "C", "C", "B", "A", "A", "B", "C", "C",
                          "A", "A", "B", "B", "A", "C", "C">>]

\* the labels of each column of the records, in sorted order
RegionLabels == <<"East", "North", "South", "West">>

ProductLabels == <<"A", "B", "C">>

\* pd.crosstab: the number of records with each pair of labels
crosstab(a, b, rows, cols) ==
    [i \in 1..Len(rows) |->
        [j \in 1..Len(cols) |->
            Cardinality({k \in 1..Len(a) : a[k] = rows[i] /\ b[k] = cols[j]})]]

contingency_table_survey ==
    crosstab(data.Region, data.Product_Choice, RegionLabels, ProductLabels)

(***************************************************************************)
(* Inputs of one analysis: every table of these shapes with counts in      *)
(* -1..MaxCount, the table without data, and the notebook's tables         *)
(***************************************************************************)
Counts == -1..MaxCount

Shapes == {<<1, 1>>, <<1, 2>>, <<2, 1>>, <<1, 3>>, <<3, 1>>,
           <<2, 2>>, <<2, 3>>, <<3, 2>>}

TablesOf(s) == [1..s[1] -> [1..s[2] -> Counts]]

Tables ==
    UNION {TablesOf(s) : s \in Shapes}
    \cup {<<>>, observed_gender_product, observed_smoking_disease,
          observed_education_news, contingency_table_survey}

PValues == {exact_p(Rat(k, PGrid)) : k \in 0..PGrid} \cup {exact_p(alpha)}

NoResult == [status |-> "none"]

NoAssoc == [status |-> "none"]

NoNames == <<>>

NoData == [X |-> <<>>, y |-> <<>>]

NoModel == [status |-> "none"]

NoPred == [status |-> "none"]

NoPoly == [status |-> "none"]

NoScaler == [status |-> "none"]

NoMatrix == [status |-> "none"]

\* no scaler, no second fit, no notebook run
AuxIdle ==
    /\ scaler_for_ridge = NoScaler
    /\ X_train_scaled = NoMatrix
    /\ X_test_scaled = NoMatrix
    /\ refit = NoModel
    /\ notebook = ""
    /\ ran = <<>>

\* the regression notebook not run
RegIdle ==
    /\ train = NoData
    /\ model = NoModel
    /\ ridge_model = NoModel
    /\ pred = NoPred
    /\ coefs_ridge_path = <<>>
    /\ ridge_path_model = NoModel
    /\ poly = NoPoly
    /\ AuxIdle

(***************************************************************************)
(* One analysis: the test of a test cell, then CELL 12 on its statistic    *)
(***************************************************************************)
InitAnalyze ==
    /\ observed \in Tables
    /\ res = NoResult
    /\ assoc = NoAssoc
    /\ pv = exact_p(Int2F(1))
    /\ printed = ""
    /\ ns = NoNames
    /\ out = ""
    /\ exc = ""
    /\ RegIdle

\* chi2_stat, p_value, dof, expected_freq = chi2_contingency(observed), then
\* the interpretation branch
Analyze ==
    /\ res = NoResult
    /\ res' = chi2_contingency(observed)
    /\ printed' = IF res'.status = "ok" THEN interpretation(res'.p, alpha) ELSE ""
    /\ UNCHANGED <<observed, assoc, pv, ns, out, exc>>
    /\ UNCHANGED regvars
    /\ UNCHANGED auxvars

\* CELL 12 on the table and the statistic the test returned
Association ==
    /\ res.status = "ok"
    /\ assoc = NoAssoc
    /\ assoc' = [status |-> "ok"] @@ cramers_v(observed, res.chi2)
    /\ UNCHANGED <<observed, res, pv, printed, ns, out, exc>>
    /\ UNCHANGED regvars
    /\ UNCHANGED auxvars

NextAnalyze == Analyze \/ Association

SpecAnalyze == InitAnalyze /\ [][NextAnalyze]_vars

(***************************************************************************)
(* One interpretation: the branch of a test cell on a given p-value        *)
(***************************************************************************)
InitInterp ==
    /\ pv \in PValues
    /\ printed = ""
    /\ observed = <<>>
    /\ res = NoResult
    /\ assoc = NoAssoc
    /\ ns = NoNames
    /\ out = ""
    /\ exc = ""
    /\ RegIdle

Interpret ==
    /\ printed = ""
    /\ printed' = interpretation(pv, alpha)
    /\ UNCHANGED <<observed, res, assoc, pv, ns, out, exc>>
    /\ UNCHANGED regvars
    /\ UNCHANGED auxvars

NextInterp == Interpret

SpecInterp == InitInterp /\ [][NextInterp]_vars

(***************************************************************************)
(* Claims about one analysis (SpecAnalyze) and one interpretation          *)
(* (SpecInterp)                                                            *)
(***************************************************************************)
Analyzed == res.status # "none"

Returned == res.status = "ok"

Failed == res.status = "ValueError"

\* r, c >= 2, non-negative counts, grand total > 0
ValidTable(t) ==
    /\ NRows(t) >= 2
    /\ NCols(t) >= 2
    /\ ~has_negative(t)
    /\ GrandTotal(t) > 0

AllPositive(t) == \A c \in Cells(t) : t[c[1]][c[2]] > 0

PositiveMargins(t) ==
    /\ \A i \in 1..NRows(t) : RowTotal(t, i) > 0
    /\ \A j \in 1..NCols(t) : ColTotal(t, j) > 0

FRowSum(e, i) == FSumSeq(e[i])

FColSum(e, j) == FSumSeq([i \in 1..Len(e) |-> e[i][j]])

MarginsAgree(t, e) ==
    /\ \A i \in 1..NRows(t) : FRowSum(e, i) = Int2F(RowTotal(t, i))
    /\ \A j \in 1..NCols(t) : FColSum(e, j) = Int2F(ColTotal(t, j))

\* C4: for every table with r, c >= 2, non-negative counts and grand total > 0,
\* the expected table has the row sums and the column sums of the observed
\* table, as computed from the table and as returned by the test.
C4_ExpectedMarginsAgree ==
    ValidTable(observed) =>
        /\ MarginsAgree(observed, expected_freq(observed))
        /\ Returned => MarginsAgree(observed, res.expected)

\* a returned expected table with a fractional entry
C4_Witness ==
    /\ ValidTable(observed)
    /\ Returned
    /\ \E c \in Cells(observed) : res.expected[c[1]][c[2]].d > 1

ObservedIsExpected(t, e) ==
    \A c \in Cells(t) : Int2F(t[c[1]][c[2]]) = e[c[1]][c[2]]

\* C5: for every valid table the returned statistic is >= 0, and it is 0 if and
\* only if every observed cell equals its expected cell.
C5_StatisticZeroIffEqual ==
    (ValidTable(observed) /\ Returned) =>
        /\ FLeq(Int2F(0), res.chi2)
        /\ (res.chi2 = Int2F(0)) <=> ObservedIsExpected(observed, res.expected)

\* C6 as stated: every r x c table with r, c >= 2 gets (r-1)*(c-1) degrees of
\* freedom reported.
C6_Original ==
    (ValidTable(observed) /\ Analyzed) =>
        /\ Returned
        /\ res.dof = (NRows(observed) - 1) * (NCols(observed) - 1)

\* C6: for every r x c table with r, c >= 2, non-negative counts and positive
\* row and column totals the test returns (r-1)*(c-1) degrees of freedom: 4 for
\* the 3x3 education table, 1 for every such 2x2 table.
C6_DegreesOfFreedom ==
    (ValidTable(observed) /\ PositiveMargins(observed) /\ Analyzed) =>
        /\ Returned
        /\ res.dof = (NRows(observed) - 1) * (NCols(observed) - 1)
        /\ observed = observed_education_news => res.dof = 4
        /\ (NRows(observed) = 2 /\ NCols(observed) = 2) => res.dof = 1

C6_Witness ==
    /\ observed = observed_education_news
    /\ Returned
    /\ res.dof = 4

\* C7: exactly one conclusion is printed: Reject iff p < alpha, Fail to reject
\* iff p >= alpha; p = alpha fails to reject.
C7_InterpretationBranch ==
    printed # "" =>
        /\ printed \in {"Reject the null hypothesis",
                        "Fail to reject the null hypothesis"}
        /\ printed = "Reject the null hypothesis" <=> FLess(pv.val, alpha)
        /\ printed = "Fail to reject the null hypothesis" <=> FLeq(alpha, pv.val)

\* the p-value equal to alpha has been interpreted
C7_Witness ==
    /\ pv.val = alpha
    /\ printed = "Fail to reject the null hypothesis"

TooSmall(t) == NRows(t) < 2 \/ NCols(t) < 2

\* C8 as stated: fewer than 2 rows or columns, a negative entry or grand total 0
\* fails with an error and returns no result.
C8_Original ==
    (Analyzed /\ (TooSmall(observed) \/ has_negative(observed)
                  \/ GrandTotal(observed) = 0))
        => Failed

\* C8: a table with a negative entry fails with an error and returns no
\* result; a table with fewer than 2 rows or columns and only positive counts
\* does not fail, it returns statistic 0 with p-value 1.
C8_InvalidInput ==
    Analyzed =>
        /\ has_negative(observed) => Failed
        /\ (TooSmall(observed) /\ size(observed) > 0 /\ AllPositive(observed)) =>
               (Returned /\ res.chi2 = Int2F(0) /\ res.p = exact_p(Int2F(1)))

C8_Witness ==
    /\ has_negative(observed)
    /\ NRows(observed) = 2
    /\ NCols(observed) = 2
    /\ Failed

\* C9 as stated: a table with 0 degrees of freedom fails with an error.
C9_Original ==
    (Analyzed /\ size(observed) > 0 /\ degrees_of_freedom(observed) = 0)
        => Failed

\* C9: on a table with 0 degrees of freedom (one row or one column) the test
\* fails only for a negative or a zero count; with positive counts it returns
\* statistic 0, p-value 1, 0 degrees of freedom and the counts as expected.
C9_DegenerateTable ==
    (Analyzed /\ size(observed) > 0 /\ degrees_of_freedom(observed) = 0) =>
        /\ Failed => ~AllPositive(observed)
        /\ AllPositive(observed) =>
               /\ Returned
               /\ res.dof = 0
               /\ res.chi2 = Int2F(0)
               /\ res.p = exact_p(Int2F(1))
               /\ ObservedIsExpected(observed, res.expected)

C9_Witness ==
    /\ NRows(observed) = 1
    /\ NCols(observed) = 3
    /\ AllPositive(observed)
    /\ Returned
    /\ res.dof = 0

Associated == assoc.status = "ok"

\* C10 as stated: with min(rows, cols) = 1 Cramer's V is no value at all, not
\* even not-a-number.
C10_Original ==
    (assoc.status # "none" /\ Min2(NRows(observed), NCols(observed)) = 1)
        => (assoc.status # "ok" \/ ~IsNaN(assoc.cramers_v_sd.sq))

\* C10: with min(rows, cols) = 1 CELL 12 does not fail: Cramer's V is
\* not-a-number, and its quotient chi2 / (n * (min(rows, cols) - 1)) is not
\* evaluated, so it does not divide by zero.
C10_CramersVDegenerate ==
    (Associated /\ Min2(NRows(observed), NCols(observed)) = 1) =>
        /\ IsNaN(assoc.cramers_v_sd.sq)
        /\ "cramers_v_sd" \notin assoc.zerodiv

C10_Witness ==
    /\ Associated
    /\ NRows(observed) = 1
    /\ NCols(observed) = 2
    /\ AllPositive(observed)
    /\ IsNaN(assoc.cramers_v_sd.sq)

\* an expected cell below 1, or fewer than 80% of the cells at 5 or more
LowExpected(e) ==
    LET cells == {c \in (1..Len(e)) \X (1..Len(e[1])) : TRUE}
        big == {c \in cells : FLeq(Int2F(5), e[c[1]][c[2]])}
    IN  \/ \E c \in cells : FLess(e[c[1]][c[2]], Int2F(1))
        \/ 5 * Cardinality(big) < 4 * Cardinality(cells)

\* the result carries a low-expected-frequency flag
Flagged(r) ==
    /\ "lowExpectedFrequencyWarning" \in DOMAIN r
    /\ r.lowExpectedFrequencyWarning = TRUE

\* C11 as stated: with low expected frequencies the test still returns and the
\* result carries the warning flag.
C11_Original ==
    (ValidTable(observed) /\ Analyzed /\ LowExpected(expected_freq(observed)))
        => (Returned /\ Flagged(res))

\* C11: with low expected frequencies, none of them 0, the test does not fail:
\* it returns statistic, p-value, degrees of freedom and the expected table,
\* and nothing else (no warning flag); so for the survey table, whose expected
\* cells are all below 5.  With an expected frequency of 0 the test fails.
C11_LowExpectedNotFatal ==
    /\ (ValidTable(observed) /\ ~PositiveMargins(observed) /\ Analyzed) =>
           (LowExpected(expected_freq(observed)) /\ Failed)
    /\ (ValidTable(observed) /\ PositiveMargins(observed) /\ Analyzed
        /\ LowExpected(expected_freq(observed))) =>
        /\ Returned
        /\ DOMAIN res = {"status", "chi2", "p", "dof", "expected"}
        /\ ~IsNaN(res.chi2)
        /\ ~IsNaN(res.expected[1][1])
        /\ observed = contingency_table_survey =>
               /\ res.dof = 6
               /\ \A c \in Cells(observed) :
                      FLess(res.expected[c[1]][c[2]], Int2F(5))

C11_Witness ==
    /\ observed = contingency_table_survey
    /\ Returned
    /\ LowExpected(res.expected)
    /\ res.chi2 = Rat(927, 140)

\* C12: for every table with min(rows, cols) = 2 the general Cramer's V of
\* CELL 12 is the same value as the phi coefficient sqrt(statistic / n).
C12_CramersVIsPhi ==
    (Associated /\ Min2(NRows(observed), NCols(observed)) = 2) =>
        /\ assoc.cramers_v_sd = assoc.phi_sd
        /\ assoc.phi_sd = np_sqrt(FDiv(res.chi2, Int2F(GrandTotal(observed))))

C12_Witness ==
    /\ Associated
    /\ NRows(observed) = 2
    /\ NCols(observed) = 3
    /\ FLess(Int2F(0), assoc.cramers_v_sd.sq)
    /\ assoc.cramers_v_sd = assoc.phi_sd

\* C13: for every valid table Cramer's V lies in [0, 1]: its square does, that
\* is the statistic does not exceed n * (min(rows, cols) - 1).
C13_CramersVRange ==
    (Associated /\ ValidTable(observed)) =>
        /\ FLeq(Int2F(0), assoc.cramers_v_sd.sq)
        /\ FLeq(assoc.cramers_v_sd.sq, Int2F(1))
        /\ FLeq(res.chi2,
                Int2F(GrandTotal(observed)
                      * (Min2(NRows(observed), NCols(observed)) - 1)))

\* a table of perfect association without correction: V = 1
C13_Witness ==
    /\ Associated
    /\ NRows(observed) = 3
    /\ NCols(observed) = 2
    /\ assoc.cramers_v_sd.sq = Int2F(1)

(***************************************************************************)
(* The notebook kernel: ns maps the bound names to their values; a cell    *)
(* run binds names, prints (out keeps the Result line) or stops at the     *)
(* first unbound name it reads (exc).  Cells run in any order, repeatedly. *)
(***************************************************************************)
Bound(x) == x \in DOMAIN ns

Init ==
    /\ ns = NoNames
    /\ out = ""
    /\ exc = ""
    /\ observed = <<>>
    /\ res = NoResult
    /\ assoc = NoAssoc
    /\ pv = exact_p(Int2F(1))
    /\ printed = ""
    /\ RegIdle

NameError ==
    /\ exc' = "NameError"
    /\ out' = ""
    /\ ns' = ns

\* CELL 1: import numpy as np; from scipy.stats import chi2_contingency
Cell1 ==
    /\ ns' = [np |-> "module", chi2_contingency |-> "function"] @@ ns
    /\ out' = ""
    /\ exc' = ""
    /\ UNCHANGED <<observed, res, assoc, pv, printed>>
    /\ UNCHANGED regvars
    /\ UNCHANGED auxvars

\* a cell that binds name to np.array(table) and prints it
DefineTable(name, table) ==
    /\ IF Bound("np")
       THEN /\ ns' = (name :> table) @@ ns
            /\ out' = ""
            /\ exc' = ""
       ELSE NameError
    /\ UNCHANGED <<observed, res, assoc, pv, printed>>
    /\ UNCHANGED regvars
    /\ UNCHANGED auxvars

\* a test cell that binds its results to the names of CELL 3, whatever example
\* it runs
TestCell_shared_names(obs, stat, p, dof, expected) ==
    /\ IF Bound("chi2_contingency") /\ Bound(obs)
       THEN LET r == chi2_contingency(ns[obs])
            IN  IF r.status = "ok"
                THEN /\ ns' = [chi2_stat |-> r.chi2, p_value |-> r.p, dof |-> r.dof,
                               expected_freq |-> r.expected, alpha |-> alpha] @@ ns
                     /\ out' = interpretation(r.p, alpha)
                     /\ exc' = ""
                ELSE /\ ns' = ns
                     /\ out' = ""
                     /\ exc' = r.status
       ELSE NameError
    /\ UNCHANGED <<observed, res, assoc, pv, printed>>
    /\ UNCHANGED regvars
    /\ UNCHANGED auxvars

\* a cell that runs chi2_contingency on the table bound to obs, binds the four
\* returned values and alpha, and prints the interpretation
TestCell(obs, stat, p, dof, expected) ==
    /\ IF Bound("chi2_contingency") /\ Bound(obs)
       THEN LET r == chi2_contingency(ns[obs])
            IN  IF r.status = "ok"
                THEN /\ ns' = (stat :> r.chi2) @@ (p :> r.p) @@ (dof :> r.dof)
                              @@ (expected :> r.expected) @@ [alpha |-> alpha] @@ ns
                     /\ out' = interpretation(r.p, alpha)
                     /\ exc' = ""
                ELSE /\ ns' = ns
                     /\ out' = ""
                     /\ exc' = r.status
       ELSE NameError
    /\ UNCHANGED <<observed, res, assoc, pv, printed>>
    /\ UNCHANGED regvars
    /\ UNCHANGED auxvars

Cell2 == DefineTable("observed_gender_product", observed_gender_product)

Cell3 == TestCell("observed_gender_product",
                  "chi2_stat", "p_value", "dof", "expected_freq")

Cell4 == DefineTable("observed_smoking_disease", observed_smoking_disease)

Cell5 == TestCell("observed_smoking_disease",
                  "chi2_stat_sd", "p_value_sd", "dof_sd", "expected_freq_sd")

Cell6 == DefineTable("observed_education_news", observed_education_news)

Cell7 == TestCell("observed_education_news",
                  "chi2_stat_en", "p_value_en", "dof_en", "expected_freq_en")

\* CELL 12: n_sd is bound before chi2_stat_sd is read
Cell12 ==
    /\ IF ~Bound("observed_smoking_disease")
       THEN NameError
       ELSE IF ~(Bound("np") /\ Bound("chi2_stat_sd"))
       THEN /\ ns' = [n_sd |-> GrandTotal(ns.observed_smoking_disease)] @@ ns
            /\ out' = ""
            /\ exc' = "NameError"
       ELSE LET v == cramers_v(ns.observed_smoking_disease, ns.chi2_stat_sd)
            IN  /\ ns' = [n_sd |-> v.n_sd, phi_sd |-> v.phi_sd,
                          min_dim_sd |-> v.min_dim_sd,
                          cramers_v_sd |-> v.cramers_v_sd] @@ ns
                /\ out' = ""
                /\ exc' = ""
    /\ UNCHANGED <<observed, res, assoc, pv, printed>>
    /\ UNCHANGED regvars
    /\ UNCHANGED auxvars

\* CELL 8: import pandas as pd
Cell8 ==
    /\ ns' = [pd |-> "module"] @@ ns
    /\ out' = ""
    /\ exc' = ""
    /\ UNCHANGED <<observed, res, assoc, pv, printed>>
    /\ UNCHANGED regvars
    /\ UNCHANGED auxvars

\* CELL 9: data is bound before pd is read
Cell9 ==
    /\ IF Bound("pd")
       THEN /\ ns' = [data |-> data, df_survey |-> data] @@ ns
            /\ exc' = ""
       ELSE /\ ns' = [data |-> data] @@ ns
            /\ exc' = "NameError"
    /\ out' = ""
    /\ UNCHANGED <<observed, res, assoc, pv, printed>>
    /\ UNCHANGED regvars
    /\ UNCHANGED auxvars

\* CELL 10: the cross-tabulation of the two columns of df_survey
Cell10 ==
    /\ IF Bound("pd") /\ Bound("df_survey")
       THEN /\ ns' = [contingency_table_survey |->
                         crosstab(ns.df_survey.Region, ns.df_survey.Product_Choice,
                                  RegionLabels, ProductLabels)] @@ ns
            /\ out' = ""
            /\ exc' = ""
       ELSE NameError
    /\ UNCHANGED <<observed, res, assoc, pv, printed>>
    /\ UNCHANGED regvars
    /\ UNCHANGED auxvars

Cell11 == TestCell("contingency_table_survey", "chi2_stat_survey",
                   "p_value_survey", "dof_survey", "expected_freq_survey")

Next ==
    \/ Cell1 \/ Cell2 \/ Cell3 \/ Cell4 \/ Cell5 \/ Cell6 \/ Cell7
    \/ Cell8 \/ Cell9 \/ Cell10 \/ Cell11 \/ Cell12

Spec == Init /\ [][Next]_vars

(***************************************************************************)
(* Claims about the notebook's examples (Spec)                             *)
(***************************************************************************)
\* C1: on [[20,30],[25,25]] CELL 3 gets a statistic within 0.01 of 1.0083,
\* 1 degree of freedom and a p-value above 0.05.
C1_WeakExample ==
    Bound("chi2_stat") =>
        /\ Within(ns.chi2_stat, Rat(10083, 10000), Rat(1, 100))
        /\ ns.dof = 1
        /\ PGreater(ns.p_value, alpha)

\* C2: on [[50,30],[20,100]] CELL 5 gets a statistic within 0.1 of 44.33,
\* 1 degree of freedom and a p-value below 0.0001.
C2_StrongExample ==
    Bound("chi2_stat_sd") =>
        /\ Within(ns.chi2_stat_sd, Rat(4433, 100), Rat(1, 10))
        /\ ns.dof_sd = 1
        /\ PLess(ns.p_value_sd, Rat(1, 10000))

\* C3: Cramer's V of CELL 12 for the smoking/disease table is within 0.01 of
\* 0.471, that is its square lies between 0.461^2 and 0.481^2.
C3_CramersVExample ==
    Bound("cramers_v_sd") =>
        /\ FLeq(Rat(461 * 461, 1000000), ns.cramers_v_sd.sq)
        /\ FLeq(ns.cramers_v_sd.sq, Rat(481 * 481, 1000000))

(***************************************************************************)
(* The regression notebook (DA4.ipynb).  A design matrix is a sequence of  *)
(* rows, each a sequence of floats; scikit-learn's estimators are modelled *)
(* by what they compute, in exact arithmetic.                              *)
(***************************************************************************)
\* a <= b for finite a, b, by comparing continued fractions: no product of
\* numerators and denominators is formed
RECURSIVE CfLeq(_, _, _, _)
CfLeq(a, b, c, d) ==
    LET q1 == a \div b
        q2 == c \div d
        r1 == a % b
        r2 == c % d
    IN  IF q1 # q2 THEN q1 < q2
        ELSE IF r1 = 0 THEN TRUE
        ELSE IF r2 = 0 THEN FALSE
        ELSE CfLeq(d, r2, b, r1)

Leq(a, b) == a.d # 0 /\ b.d # 0 /\ CfLeq(a.n, a.d, b.n, b.d)

n_samples(X) == Len(X)

n_features(X) == IF X = <<>> THEN 0 ELSE Len(X[1])

column(X, j) == [i \in 1..Len(X) |-> X[i][j]]

np_mean(s) == FDiv(FSumSeq(s), Int2F(Len(s)))

np_dot(a, b) == FSumSeq([k \in 1..Len(a) |-> FMul(a[k], b[k])])

\* the sum of the squares of a vector
sq_norm(w) == np_dot(w, w)

zeros(p) == [j \in 1..p |-> Int2F(0)]

\* X.T @ X and X.T @ y
gram(X) ==
    [j \in 1..n_features(X) |->
        [k \in 1..n_features(X) |-> np_dot(column(X, j), column(X, k))]]

Xty(X, y) == [j \in 1..n_features(X) |-> np_dot(column(X, j), y)]

trace(G) == FSumSeq([j \in 1..Len(G) |-> G[j][j]])

\* determinant of a 1 x 1 or 2 x 2 matrix
det(G) ==
    IF Len(G) = 1 THEN G[1][1]
    ELSE FSub(FMul(G[1][1], G[2][2]), FMul(G[1][2], G[2][1]))

\* the solution of G w = v for a non-singular 1 x 1 or 2 x 2 matrix G
solve(G, v) ==
    IF Len(G) = 1 THEN <<FDiv(v[1], G[1][1])>>
    ELSE LET d == det(G)
         IN  <<FDiv(FSub(FMul(G[2][2], v[1]), FMul(G[1][2], v[2])), d),
               FDiv(FSub(FMul(G[1][1], v[2]), FMul(G[2][1], v[1])), d)>>

\* preprocessing of the linear models (fit_intercept=True): the column means,
\* the mean of y, and the centred data
X_offset(X) == [j \in 1..n_features(X) |-> np_mean(column(X, j))]

y_offset(y) == np_mean(y)

centre_X(X) ==
    LET m == X_offset(X)
    IN  [i \in 1..Len(X) |-> [j \in 1..n_features(X) |-> FSub(X[i][j], m[j])]]

centre_y(y) ==
    LET m == y_offset(y)
    IN  [i \in 1..Len(y) |-> FSub(y[i], m)]

\* scipy.linalg.lstsq: the least-squares solution of A w = b of minimum norm,
\* for A of one or two columns.  With A of rank 1 the pseudo-inverse of A is
\* A.T / trace(A.T A); with A = 0 it is 0.
lstsq(A, b) ==
    LET G == gram(A)
        v == Xty(A, b)
        t == trace(G)
    IN  IF det(G).n # 0 THEN solve(G, v)
        ELSE IF t.n # 0 THEN [j \in 1..Len(v) |-> FDiv(v[j], t)]
        ELSE zeros(Len(v))

\* check_X_y: at least one sample, and as many targets as samples
bad_X_y(X, y) == n_samples(X) < 1 \/ Len(y) # n_samples(X)

\* intercept_ = y_offset - X_offset . coef_
set_intercept(X, y, coef) == FSub(y_offset(y), np_dot(X_offset(X), coef))

Fitted(X, y, coef) ==
    [status |-> "ok", coef_ |-> coef, intercept_ |-> set_intercept(X, y, coef),
     n_features_in_ |-> n_features(X)]

\* a fit that refuses fewer than p + 1 samples
LinearRegression_fit_determined(X, y) ==
    IF bad_X_y(X, y) \/ n_samples(X) < n_features(X) + 1
    THEN ValueError("underdetermined")
    ELSE Fitted(X, y, lstsq(centre_X(X), centre_y(y)))

\* a fit with fit_intercept=False
LinearRegression_fit_no_intercept(X, y) ==
    IF bad_X_y(X, y) THEN ValueError("inconsistent numbers of samples")
    ELSE [status |-> "ok", coef_ |-> lstsq(X, y), intercept_ |-> Int2F(0),
          n_features_in_ |-> n_features(X)]

\* LinearRegression().fit(X, y)
LinearRegression_fit(X, y) ==
    IF bad_X_y(X, y) THEN ValueError("inconsistent numbers of samples")
    ELSE Fitted(X, y, lstsq(centre_X(X), centre_y(y)))

\* the SVD solver without its singular values
solve_svd_zeros(X, y, a) == zeros(n_features(X))

\* the SVD solver of Ridge: with the singular values s of X, the coefficients
\* are V diag(s / (s^2 + a)) U.T y over the non-zero s
solve_svd(X, y, a) ==
    LET G == gram(X)
        v == Xty(X, y)
        t == trace(G)
    IN  IF det(G).n # 0
        THEN solve([j \in 1..Len(G) |-> [k \in 1..Len(G) |->
                       IF j = k THEN FAdd(G[j][k], a) ELSE G[j][k]]], v)
        ELSE IF t.n # 0 THEN [j \in 1..Len(v) |-> FDiv(v[j], FAdd(t, a))]
        ELSE zeros(Len(v))

\* X.T @ X + alpha * I
penalized_gram(X, a) ==
    LET G == gram(X)
    IN  [j \in 1..Len(G) |-> [k \in 1..Len(G) |->
            IF j = k THEN FAdd(G[j][k], a) ELSE G[j][k]]]

\* a solver that ignores alpha
ridge_regression_unpenalized(X, y, a) == lstsq(X, y)

\* the solver of Ridge (solver="auto", dense data): Cholesky on the penalized
\* normal equations, and the SVD solver when that matrix is singular
ridge_regression(X, y, a) ==
    LET A == penalized_gram(X, a)
    IN  IF det(A).n # 0 THEN solve(A, Xty(X, y)) ELSE solve_svd(X, y, a)

\* a fit whose intercept is shrunk with the coefficients
Ridge_fit_penalized_intercept(X, y, a) ==
    IF bad_X_y(X, y) THEN ValueError("inconsistent numbers of samples")
    ELSE LET coef == ridge_regression(centre_X(X), centre_y(y), a)
         IN  [status |-> "ok", coef_ |-> coef,
              intercept_ |-> FDiv(FMul(set_intercept(X, y, coef),
                                       Int2F(n_samples(X))),
                                  FAdd(Int2F(n_samples(X)), a)),
              n_features_in_ |-> n_features(X), alpha |-> a]

\* Ridge(alpha=a).fit(X, y), fit_intercept=True
Ridge_fit(X, y, a) ==
    IF bad_X_y(X, y) THEN ValueError("inconsistent numbers of samples")
    ELSE [alpha |-> a]
         @@ Fitted(X, y, ridge_regression(centre_X(X), centre_y(y), a))

\* predictions without the intercept
predict_no_intercept(m, X) ==
    IF n_samples(X) < 1 \/ n_features(X) # m.n_features_in_
    THEN ValueError("feature count")
    ELSE [status |-> "ok",
          y |-> [i \in 1..Len(X) |-> np_dot(X[i], m.coef_)]]

\* model.predict(X): X @ coef_ + intercept_
predict(m, X) ==
    IF n_samples(X) < 1 \/ n_features(X) # m.n_features_in_
    THEN ValueError("feature count")
    ELSE [status |-> "ok",
          y |-> [i \in 1..Len(X) |-> FAdd(np_dot(X[i], m.coef_), m.intercept_)]]

(***************************************************************************)
(* PolynomialFeatures                                                      *)
(***************************************************************************)
\* the index tuples in the opposite order of the first index
RECURSIVE combinations_w_r_desc(_, _, _)
combinations_w_r_desc(i, p, d) ==
    IF d = 0 THEN << <<>> >>
    ELSE IF i > p THEN <<>>
    ELSE LET rest == combinations_w_r_desc(i, p, d - 1)
         IN  combinations_w_r_desc(i + 1, p, d)
             \o [k \in 1..Len(rest) |-> <<i>> \o rest[k]]

\* itertools.combinations_with_replacement(range(i, p + 1), d): the
\* non-decreasing index tuples of length d, in lexicographic order
RECURSIVE combinations_w_r(_, _, _)
combinations_w_r(i, p, d) ==
    IF d = 0 THEN << <<>> >>
    ELSE IF i > p THEN <<>>
    ELSE LET rest == combinations_w_r(i, p, d - 1)
         IN  [k \in 1..Len(rest) |-> <<i>> \o rest[k]]
             \o combinations_w_r(i + 1, p, d)

\* index tuples that may repeat an index
RECURSIVE combinations_repeating(_, _, _)
combinations_repeating(i, p, d) ==
    IF d = 0 THEN << <<>> >>
    ELSE IF i > p THEN <<>>
    ELSE LET rest == combinations_repeating(i, p, d - 1)
         IN  [k \in 1..Len(rest) |-> <<i>> \o rest[k]]
             \o combinations_repeating(i + 1, p, d)

\* itertools.combinations(range(i, p + 1), d): the increasing index tuples
RECURSIVE combinations(_, _, _)
combinations(i, p, d) ==
    IF d = 0 THEN << <<>> >>
    ELSE IF i > p THEN <<>>
    ELSE LET rest == combinations(i + 1, p, d - 1)
         IN  [k \in 1..Len(rest) |-> <<i>> \o rest[k]]
             \o combinations(i + 1, p, d)

\* the index tuples of the degrees lo..hi, degree by degree
RECURSIVE chain(_, _, _, _)
chain(p, lo, hi, interaction_only) ==
    IF lo > hi THEN <<>>
    ELSE (IF interaction_only THEN combinations(1, p, lo)
          ELSE combinations_w_r(1, p, lo))
         \o chain(p, lo + 1, hi, interaction_only)

\* PolynomialFeatures._combinations: one index tuple per output column
poly_combinations(p, degree, include_bias, interaction_only) ==
    chain(p, IF include_bias THEN 0 ELSE 1, degree, interaction_only)

\* the product of the features of a row picked by an index tuple
RECURSIVE monomial(_, _)
monomial(row, c) ==
    IF c = <<>> THEN Int2F(1) ELSE FMul(row[c[1]], monomial(row, Tail(c)))

\* PolynomialFeatures(degree, include_bias, interaction_only).fit_transform(X)
PolynomialFeatures(X, degree, include_bias, interaction_only) ==
    IF n_samples(X) < 1 THEN ValueError("no sample")
    ELSE LET cs == poly_combinations(n_features(X), degree, include_bias,
                                     interaction_only)
         IN  [status |-> "ok", degree |-> degree, include_bias |-> include_bias,
              interaction_only |-> interaction_only,
              n_output_features_ |-> Len(cs),
              X |-> [i \in 1..Len(X) |-> [k \in 1..Len(cs) |-> monomial(X[i], cs[k])]]]

(***************************************************************************)
(* Training data and new data                                              *)
(***************************************************************************)
MaxX == 1           \* largest feature value of the enumerated design matrices

Features == {Int2F(k) : k \in -1..MaxX}

Targets == {Int2F(-1), Int2F(2)}

\* (n_samples, n_features) of the enumerated training sets
RegShapes == {<<1, 1>>, <<2, 1>>, <<3, 1>>, <<1, 2>>, <<2, 2>>, <<3, 2>>}

\* rows in lexicographic order: a fit does not depend on the order of the
\* samples, so the enumerated training sets keep one order of each
RowLeq(a, b) ==
    \/ a = b
    \/ \E j \in 1..Len(a) :
          /\ FLess(a[j], b[j])
          /\ \A k \in 1..(j - 1) : a[k] = b[k]

Matrices(n, p) ==
    {X \in [1..n -> [1..p -> Features]] :
        \A i \in 1..(n - 1) : RowLeq(X[i], X[i + 1])}

\* y = 2.5x + 5, the true relationship of the SLR sample data, without noise
true_line(x) == FAdd(FMul(Rat(5, 2), x), Int2F(5))

NoiseFree ==
    UNION {{[X |-> X, y |-> [i \in 1..n |-> true_line(X[i][1])]] :
               X \in Matrices(n, 1)} : n \in 1..3}

\* no sample at all, and a target vector of the wrong length
Malformed ==
    {NoData,
     [X |-> <<<<Int2F(0)>>, <<Int2F(1)>>>>, y |-> <<Int2F(2)>>],
     [X |-> <<<<Int2F(0), Int2F(1)>>>>, y |-> <<Int2F(2), Int2F(0)>>]}

\* the training data of a run: any targets on an enumerated design matrix,
\* noise-free targets, or malformed data
TrainingData ==
    \/ \E sh \in RegShapes : \E X \in Matrices(sh[1], sh[2]) :
          \E y \in [1..sh[1] -> Targets] : train = [X |-> X, y |-> y]
    \/ train \in NoiseFree
    \/ train \in Malformed

\* design matrices passed to predict: one, two or three columns
NewData ==
    {<< <<Int2F(2)>> >>,
     << <<Int2F(1)>>, <<Int2F(-3)>>, <<Rat(1, 2)>> >>,
     << <<Int2F(1), Int2F(-1)>> >>,
     << <<Int2F(0), Int2F(2)>>, <<Int2F(3), Int2F(1)>> >>,
     << <<Int2F(1), Int2F(0), Int2F(1)>> >>}

\* the chi-square notebook not run
ChiIdle ==
    /\ observed = <<>>
    /\ res = NoResult
    /\ assoc = NoAssoc
    /\ pv = exact_p(Int2F(1))
    /\ printed = ""
    /\ ns = NoNames
    /\ out = ""
    /\ exc = ""

(***************************************************************************)
(* Fitting and predicting: the SLR / MLR cells on given data               *)
(***************************************************************************)
InitFit ==
    /\ ChiIdle
    /\ TrainingData
    /\ model = NoModel
    /\ ridge_model = NoModel
    /\ pred = NoPred
    /\ coefs_ridge_path = <<>>
    /\ ridge_path_model = NoModel
    /\ poly = NoPoly
    /\ AuxIdle

\* slr_model = LinearRegression(); slr_model.fit(X_slr_train, y_slr_train)
FitCell ==
    /\ model = NoModel
    /\ model' = LinearRegression_fit(train.X, train.y)
    /\ UNCHANGED <<train, ridge_model, pred, coefs_ridge_path, ridge_path_model, poly>>
    /\ UNCHANGED chivars
    /\ UNCHANGED auxvars

\* y_slr_pred_train = slr_model.predict(X_slr_train);
\* y_slr_pred_test = slr_model.predict(X_slr_test)
PredictCell ==
    /\ model.status = "ok"
    /\ pred = NoPred
    /\ \E X_test \in NewData :
          pred' = [status |-> "done", X_test |-> X_test,
                   y_pred_train |-> predict(model, train.X),
                   y_pred_test |-> predict(model, X_test)]
    /\ UNCHANGED <<train, model, ridge_model, coefs_ridge_path, ridge_path_model, poly>>
    /\ UNCHANGED chivars
    /\ UNCHANGED auxvars

NextFit == FitCell \/ PredictCell

SpecFit == InitFit /\ [][NextFit]_vars

(***************************************************************************)
(* Claims about fit and predict (SpecFit)                                  *)
(***************************************************************************)
WellFormed(d) == ~bad_X_y(d.X, d.y)

FitDone == model # NoModel

Finite(w) == \A j \in 1..Len(w) : w[j].d # 0

\* C14 as stated: a fit on n < p + 1 samples fails and returns no model.
C14_Original ==
    (FitDone /\ WellFormed(train)
        /\ n_samples(train.X) < n_features(train.X) + 1) => model.status # "ok"

\* C14: fit on n >= 1 samples of p features with a y of n entries returns a
\* model with exactly p finite coefficients, also when n < p + 1 (on a single
\* sample the coefficients are 0 and the intercept is its target); it fails,
\* with ValueError, only without a sample or with a y of another length.
C14_FitReturnsModel ==
    FitDone =>
        /\ WellFormed(train) =>
              /\ model.status = "ok"
              /\ Len(model.coef_) = n_features(train.X)
              /\ Finite(model.coef_)
              /\ model.intercept_.d # 0
              /\ n_samples(train.X) = 1 =>
                     /\ model.coef_ = zeros(n_features(train.X))
                     /\ model.intercept_ = train.y[1]
        /\ ~WellFormed(train) => model.status = "ValueError"

C14_Witness ==
    /\ model.status = "ok"
    /\ n_samples(train.X) = 2
    /\ n_features(train.X) = 2
    /\ model.coef_[1].n # 0
    /\ model.coef_[2].n # 0

\* the training data lie on the line y = 2.5x + 5
OnTrueLine(d) ==
    /\ WellFormed(d)
    /\ n_features(d.X) = 1
    /\ \A i \in 1..Len(d.X) : d.y[i] = true_line(d.X[i][1])

DistinctX(d) == \E i, k \in 1..Len(d.X) : d.X[i][1] # d.X[k][1]

\* C18: the least-squares fit on noise-free data y = 2.5x + 5 with one feature
\* and at least two distinct x values has intercept 5 and slope 2.5 exactly.
C18_NoiseFreeRecovery ==
    (FitDone /\ OnTrueLine(train) /\ DistinctX(train)) =>
        /\ model.status = "ok"
        /\ model.intercept_ = Int2F(5)
        /\ model.coef_ = <<Rat(5, 2)>>

C18_Witness ==
    /\ model.status = "ok"
    /\ OnTrueLine(train)
    /\ n_samples(train.X) = 3
    /\ Cardinality({train.X[i][1] : i \in 1..3}) = 3
    /\ model.coef_ = <<Rat(5, 2)>>

Predicted == pred # NoPred

\* intercept + sum over j of row[j] * coefficients[j]
LinearForm(m, row) ==
    FAdd(m.intercept_,
         FSumSeq([j \in 1..Len(m.coef_) |-> FMul(row[j], m.coef_[j])]))

\* C19: predict returns one output per row of X, in the order of the rows,
\* each intercept + sum_j X[row][j] * coefficients[j]; with another number
\* of columns than coefficients it fails (ValueError) and returns nothing.
C19_Predict ==
    Predicted =>
        LET X == pred.X_test
            r == pred.y_pred_test
        IN  IF n_features(X) = Len(model.coef_)
            THEN /\ r.status = "ok"
                 /\ Len(r.y) = Len(X)
                 /\ \A i \in 1..Len(X) : r.y[i] = LinearForm(model, X[i])
            ELSE /\ r.status = "ValueError"
                 /\ "y" \notin DOMAIN r

C19_Witness ==
    /\ Predicted
    /\ pred.y_pred_test.status = "ok"
    /\ Len(pred.X_test) = 3
    /\ model.intercept_.n # 0
    /\ model.coef_[1].n # 0
    /\ pred.y_pred_test.y[2] # pred.y_pred_test.y[3]

(***************************************************************************)
(* The ridge cells on given data.  train.X is the design matrix handed to  *)
(* the fits (X_mlr_train_scaled in the notebook).                          *)
(***************************************************************************)
n_alphas == 3       \* number of alpha values of the ridge path (200 in the notebook)

\* the alpha values of the ridge path, evenly spaced on a log scale
alphas_range == [i \in 1..n_alphas |-> Rat(2 ^ (i - 1), 2)]

\* the alpha values given to the ridge cell
Alphas == {Int2F(0), Int2F(1)}

\* the test matrix of a training set with p features
TestData(p) ==
    IF p = 1 THEN << <<Int2F(1)>>, <<Int2F(-3)>>, <<Rat(1, 2)>> >>
    ELSE << <<Int2F(0), Int2F(2)>>, <<Int2F(3), Int2F(1)>> >>

InitRidge ==
    /\ ChiIdle
    /\ TrainingData
    /\ model = NoModel
    /\ ridge_model = NoModel
    /\ pred = NoPred
    /\ coefs_ridge_path = <<>>
    /\ ridge_path_model = NoModel
    /\ poly = NoPoly
    /\ AuxIdle

\* ridge_model = Ridge(alpha=alpha_value); ridge_model.fit(...);
\* ols_on_scaled_data = LinearRegression(); ols_on_scaled_data.fit(...);
\* y_ridge_pred_test = ridge_model.predict(X_mlr_test_scaled)
RidgeCell ==
    /\ ridge_model = NoModel
    /\ \E alpha_value \in Alphas :
          ridge_model' = Ridge_fit(train.X, train.y, alpha_value)
    /\ IF ridge_model'.status = "ok"
       THEN /\ model' = LinearRegression_fit(train.X, train.y)
            /\ LET X_test == TestData(n_features(train.X))
               IN  pred' = [status |-> "done", X_test |-> X_test,
                            y_pred_test |-> predict(ridge_model', X_test)]
       ELSE UNCHANGED <<model, pred>>
    /\ UNCHANGED <<train, coefs_ridge_path, ridge_path_model, poly>>
    /\ UNCHANGED chivars
    /\ UNCHANGED auxvars

\* for current_alpha in alphas_range: fit a Ridge, append its coef_
PathCell ==
    /\ ridge_model.status = "ok"
    /\ coefs_ridge_path = <<>>
    /\ coefs_ridge_path' =
          [i \in 1..n_alphas |-> Ridge_fit(train.X, train.y, alphas_range[i]).coef_]
    /\ ridge_path_model' = Ridge_fit(train.X, train.y, alphas_range[n_alphas])
    /\ UNCHANGED <<train, model, ridge_model, pred, poly>>
    /\ UNCHANGED chivars
    /\ UNCHANGED auxvars

NextRidge == RidgeCell \/ PathCell

SpecRidge == InitRidge /\ [][NextRidge]_vars

(***************************************************************************)
(* Claims about the ridge fit (SpecRidge)                                  *)
(***************************************************************************)
RidgeDone == ridge_model.status = "ok"

PathDone == coefs_ridge_path # <<>>

\* C15: on every accepted data set the ridge fit with alpha = 0 has the
\* intercept and the coefficients of the ordinary least-squares fit.
C15_RidgeZeroIsOLS ==
    (RidgeDone /\ ridge_model.alpha = Int2F(0)) =>
        /\ model.status = "ok"
        /\ ridge_model.intercept_ = model.intercept_
        /\ ridge_model.coef_ = model.coef_

\* two collinear, non-constant columns: the normal equations are singular
C15_Witness ==
    /\ RidgeDone
    /\ ridge_model.alpha = Int2F(0)
    /\ n_features(train.X) = 2
    /\ det(gram(centre_X(train.X))).n = 0
    /\ ridge_model.coef_[1].n # 0
    /\ ridge_model.coef_[2].n # 0
    /\ ridge_model.coef_ = model.coef_

\* alpha * w
scaled(a, w) == [j \in 1..Len(w) |-> FMul(a, w[j])]

MeanZeroColumns(X) ==
    \A j \in 1..n_features(X) : np_mean(column(X, j)) = Int2F(0)

\* the residuals y - (intercept + X . coef) of a fitted model on its data
residuals(m, d) ==
    [i \in 1..Len(d.X) |-> FSub(d.y[i], LinearForm(m, d.X[i]))]

\* C17: the intercept is not penalized: for every alpha the residuals of the
\* ridge fit sum to 0 (the intercept's normal equation carries no penalty),
\* and on data whose feature columns each have mean 0 the intercept is the
\* mean of y; so for the last model of the ridge path.
C17_InterceptUnpenalized ==
    /\ RidgeDone =>
          /\ FSumSeq(residuals(ridge_model, train)) = Int2F(0)
          /\ MeanZeroColumns(train.X) =>
                 ridge_model.intercept_ = np_mean(train.y)
    /\ PathDone =>
          /\ FSumSeq(residuals(ridge_path_model, train)) = Int2F(0)
          /\ MeanZeroColumns(train.X) =>
                 ridge_path_model.intercept_ = np_mean(train.y)

C17_Witness ==
    /\ RidgeDone
    /\ FLess(Int2F(0), ridge_model.alpha)
    /\ n_samples(train.X) = 3
    /\ MeanZeroColumns(train.X)
    /\ ridge_model.coef_[1].n # 0
    /\ ridge_model.intercept_ = np_mean(train.y)
    /\ ridge_model.intercept_.n # 0

(***************************************************************************)
(* Polynomial expansion and the polynomial regression pipeline             *)
(***************************************************************************)
Degrees == {1, 2, 3}

\* y = 0.5x^2 + x + 2 on the first feature, the true relationship of the
\* polynomial sample data, without noise
true_curve(x) == FAdd(FAdd(FMul(Rat(1, 2), FMul(x, x)), x), Int2F(2))

InitExpand ==
    /\ ChiIdle
    /\ \E sh \in RegShapes : \E X \in Matrices(sh[1], sh[2]) :
          train = [X |-> X, y |-> [i \in 1..sh[1] |-> true_curve(X[i][1])]]
    /\ model = NoModel
    /\ ridge_model = NoModel
    /\ pred = NoPred
    /\ coefs_ridge_path = <<>>
    /\ ridge_path_model = NoModel
    /\ poly = NoPoly
    /\ AuxIdle

\* PolynomialFeatures with any parameters on the design matrix
Transform ==
    /\ poly = NoPoly
    /\ \E degree \in Degrees : \E include_bias, interaction_only \in BOOLEAN :
          poly' = PolynomialFeatures(train.X, degree, include_bias, interaction_only)
    /\ UNCHANGED <<train, model, ridge_model, pred, coefs_ridge_path,
                   ridge_path_model>>
    /\ UNCHANGED chivars
    /\ UNCHANGED auxvars

\* degree = 2; poly_reg_pipeline = Pipeline([PolynomialFeatures(degree=degree,
\* include_bias=False), LinearRegression()]); fit on the single training
\* feature, predict on the test data
PipelineCell ==
    /\ poly = NoPoly
    /\ n_features(train.X) = 1
    /\ poly' = PolynomialFeatures(train.X, 2, FALSE, FALSE)
    /\ model' = LinearRegression_fit(poly'.X, train.y)
    /\ LET X_test == TestData(1)
       IN  pred' = [status |-> "done", X_test |-> X_test,
                    y_pred_test |->
                        predict(model', PolynomialFeatures(X_test, 2, FALSE, FALSE).X)]
    /\ UNCHANGED <<train, ridge_model, coefs_ridge_path, ridge_path_model>>
    /\ UNCHANGED chivars
    /\ UNCHANGED auxvars

NextExpand == Transform \/ PipelineCell

SpecExpand == InitExpand /\ [][NextExpand]_vars

(***************************************************************************)
(* Claims about polynomial expansion (SpecExpand)                          *)
(***************************************************************************)
Expanded == poly.status = "ok"

\* the columns of the degree-2 expansion of a row of one or two features
Degree2Columns(row) ==
    IF Len(row) = 1 THEN <<row[1], FMul(row[1], row[1])>>
    ELSE <<row[1], row[2], FMul(row[1], row[1]), FMul(row[1], row[2]),
           FMul(row[2], row[2])>>

\* C20: the degree-2 expansion without bias and with interaction_only false
\* is [x, x^2] for one feature and [x1, x2, x1^2, x1*x2, x2^2] for two, in
\* that order; with the bias a leading column of ones is added.
C20_Degree2Expansion ==
    (Expanded /\ poly.degree = 2 /\ ~poly.interaction_only) =>
        /\ Len(poly.X) = Len(train.X)
        /\ poly.n_output_features_ =
              (IF n_features(train.X) = 1 THEN 2 ELSE 5)
              + (IF poly.include_bias THEN 1 ELSE 0)
        /\ \A i \in 1..Len(train.X) :
              poly.X[i] = (IF poly.include_bias THEN <<Int2F(1)>> ELSE <<>>)
                          \o Degree2Columns(train.X[i])

C20_Witness ==
    /\ Expanded
    /\ poly.degree = 2
    /\ ~poly.interaction_only
    /\ ~poly.include_bias
    /\ n_features(train.X) = 2
    /\ \E i \in 1..Len(train.X) :
          /\ Len(poly.X[i]) = 5
          /\ poly.X[i][1] # poly.X[i][2]
          /\ poly.X[i][4] # poly.X[i][3]

\* the columns of the interaction-only expansion of a row of one or two
\* features: the features, and their product when the degree allows it
InteractionColumns(row, degree) ==
    IF Len(row) = 1 THEN <<row[1]>>
    ELSE IF degree = 1 THEN <<row[1], row[2]>>
    ELSE <<row[1], row[2], FMul(row[1], row[2])>>

\* C21: with interaction_only the expansion up to any degree is the degree-1
\* features followed by the cross-product x1*x2 of distinct features (when
\* there are two features and the degree is at least 2), after the bias
\* column if any: no column is a power above 1 of a single feature.
C21_InteractionOnly ==
    (Expanded /\ poly.interaction_only) =>
        \A i \in 1..Len(train.X) :
            poly.X[i] = (IF poly.include_bias THEN <<Int2F(1)>> ELSE <<>>)
                        \o InteractionColumns(train.X[i], poly.degree)

C21_Witness ==
    /\ Expanded
    /\ poly.interaction_only
    /\ poly.degree = 3
    /\ ~poly.include_bias
    /\ n_features(train.X) = 2
    /\ \E i \in 1..Len(train.X) :
          /\ Len(poly.X[i]) = 3
          /\ poly.X[i][3] = Int2F(-1)
          /\ FMul(poly.X[i][1], poly.X[i][1]) = Int2F(1)

(***************************************************************************)
(* StandardScaler.  A standard deviation is the square root of a variance, *)
(* kept as its radicand [sq |-> v]; a scaled value c / sqrt(v) is kept as  *)
(* [c |-> c, sq |-> v].                                                    *)
(***************************************************************************)
\* the variance with the divisor n - 1
np_var_sample(s) ==
    LET m == np_mean(s)
    IN  FDiv(FSumSeq([i \in 1..Len(s) |-> FMul(FSub(s[i], m), FSub(s[i], m))]),
             Int2F(Len(s) - 1))

\* np.var: the population variance, divisor n
np_var(s) ==
    LET m == np_mean(s)
    IN  FDiv(FSumSeq([i \in 1..Len(s) |-> FMul(FSub(s[i], m), FSub(s[i], m))]),
             Int2F(Len(s)))

\* a variance of 0 kept as the square of the scale
keep_zero_scale(v) == v

\* _handle_zeros_in_scale: the scale of a constant column is 1.0
handle_zeros_in_scale(v) == IF v.n = 0 THEN Int2F(1) ELSE v

\* StandardScaler().fit(X): mean_, var_ and scale_ of every column
StandardScaler_fit(X) ==
    IF n_samples(X) < 1 THEN ValueError("no sample")
    ELSE LET var == [j \in 1..n_features(X) |-> np_var(column(X, j))]
         IN  [status |-> "ok",
              mean_ |-> X_offset(X),
              var_ |-> var,
              scale_ |-> [j \in 1..n_features(X) |->
                             np_sqrt(handle_zeros_in_scale(var[j]))],
              n_features_in_ |-> n_features(X)]

\* (X - mean_) / scale_
standardized(sc, X) ==
    [i \in 1..Len(X) |-> [j \in 1..n_features(X) |->
        [c |-> FSub(X[i][j], sc.mean_[j]), sq |-> sc.scale_[j].sq]]]

\* a transform that fits the scaler again, on the data it is given
StandardScaler_transform_refit(sc, X) ==
    IF n_samples(X) < 1 \/ n_features(X) # sc.n_features_in_
    THEN [scaler |-> sc, Z |-> ValueError("feature count")]
    ELSE [scaler |-> StandardScaler_fit(X),
          Z |-> [status |-> "ok", X |-> standardized(StandardScaler_fit(X), X)]]

\* scaler.transform(X): the scaler after the call, and the scaled matrix
StandardScaler_transform(sc, X) ==
    IF n_samples(X) < 1 \/ n_features(X) # sc.n_features_in_
    THEN [scaler |-> sc, Z |-> ValueError("feature count")]
    ELSE [scaler |-> sc, Z |-> [status |-> "ok", X |-> standardized(sc, X)]]

(***************************************************************************)
(* The scaler statements of the ridge cell on given data                   *)
(***************************************************************************)
InitScale ==
    /\ ChiIdle
    /\ \E sh \in RegShapes : \E X \in Matrices(sh[1], sh[2]) :
          train = [X |-> X, y |-> [i \in 1..sh[1] |-> true_line(X[i][1])]]
    /\ model = NoModel
    /\ ridge_model = NoModel
    /\ pred = NoPred
    /\ coefs_ridge_path = <<>>
    /\ ridge_path_model = NoModel
    /\ poly = NoPoly
    /\ AuxIdle

\* scaler_for_ridge = StandardScaler();
\* X_mlr_train_scaled = scaler_for_ridge.fit_transform(X_mlr_train)
ScalerFitTransform ==
    /\ scaler_for_ridge = NoScaler
    /\ LET sc == StandardScaler_fit(train.X)
           r == StandardScaler_transform(sc, train.X)
       IN  IF sc.status = "ok"
           THEN /\ scaler_for_ridge' = r.scaler
                /\ X_train_scaled' = r.Z
           ELSE /\ scaler_for_ridge' = sc
                /\ X_train_scaled' = NoMatrix
    /\ UNCHANGED <<X_test_scaled, refit, notebook, ran>>
    /\ UNCHANGED <<train, model, ridge_model, pred, coefs_ridge_path,
                   ridge_path_model, poly>>
    /\ UNCHANGED chivars

\* X_mlr_test_scaled = scaler_for_ridge.transform(X_mlr_test)
ScalerTransform ==
    /\ scaler_for_ridge.status = "ok"
    /\ X_test_scaled = NoMatrix
    /\ \E X_test \in NewData :
          LET r == StandardScaler_transform(scaler_for_ridge, X_test)
          IN  /\ scaler_for_ridge' = r.scaler
              /\ X_test_scaled' = [X_test |-> X_test] @@ r.Z
    /\ UNCHANGED <<X_train_scaled, refit, notebook, ran>>
    /\ UNCHANGED <<train, model, ridge_model, pred, coefs_ridge_path,
                   ridge_path_model, poly>>
    /\ UNCHANGED chivars

NextScale == ScalerFitTransform \/ ScalerTransform

SpecScale == InitScale /\ [][NextScale]_vars

(***************************************************************************)
(* Claims about standardization (SpecScale)                                *)
(***************************************************************************)
Scaled == X_train_scaled.status = "ok"

Constant(s) == \A i \in 1..Len(s) : s[i] = s[1]

\* the mean of a column of scaled values is 0: they share their scale, so
\* their numerators add up to 0
ScaledMeanZero(Z, j) ==
    FSumSeq([i \in 1..Len(Z) |-> Z[i][j].c]) = Int2F(0)

\* the population variance of a column of scaled values of mean 0:
\* the mean of c^2 / v
ScaledVariance(Z, j) ==
    np_mean([i \in 1..Len(Z) |-> FDiv(FMul(Z[i][j].c, Z[i][j].c), Z[i][j].sq)])

\* the mean of the squared deviations of a column from its mean
PopulationVariance(s) ==
    FDiv(FSumSeq([i \in 1..Len(s) |->
            FMul(FSub(s[i], np_mean(s)), FSub(s[i], np_mean(s)))]),
         Int2F(Len(s)))

\* C22: when no column of X is constant, every column of the standardized
\* matrix has mean 0 and population standard deviation 1, and the parameters
\* are the column means and the population standard deviations of X.
C22_Standardize ==
    (Scaled /\ \A j \in 1..n_features(train.X) : ~Constant(column(train.X, j))) =>
        \A j \in 1..n_features(train.X) :
            /\ scaler_for_ridge.mean_[j] = np_mean(column(train.X, j))
            /\ scaler_for_ridge.scale_[j].sq = PopulationVariance(column(train.X, j))
            /\ ScaledMeanZero(X_train_scaled.X, j)
            /\ ScaledVariance(X_train_scaled.X, j) = Int2F(1)

C22_Witness ==
    /\ Scaled
    /\ n_samples(train.X) = 3
    /\ n_features(train.X) = 2
    /\ \A j \in 1..2 : ~Constant(column(train.X, j))
    /\ scaler_for_ridge.mean_[1].n # 0
    /\ scaler_for_ridge.scale_[1].sq = Rat(2, 9)
    /\ ScaledVariance(X_train_scaled.X, 2) = Int2F(1)

\* C23 as stated: with a constant column standardization fails and returns
\* neither the matrix nor the parameters.
C23_Original ==
    (scaler_for_ridge # NoScaler
        /\ \E j \in 1..n_features(train.X) : Constant(column(train.X, j)))
    => (scaler_for_ridge.status # "ok" /\ ~Scaled)

\* C23: standardization does not fail on a constant column: the scale of
\* that column is 1 (not 0), every value of its scaled column is 0, and no
\* value is divided by a scale of 0.
C23_ConstantColumn ==
    Scaled =>
        \A j \in 1..n_features(train.X) :
            /\ scaler_for_ridge.scale_[j].sq.d # 0
            /\ scaler_for_ridge.scale_[j].sq.n # 0
            /\ Constant(column(train.X, j)) =>
                  /\ scaler_for_ridge.status = "ok"
                  /\ scaler_for_ridge.scale_[j] = np_sqrt(Int2F(1))
                  /\ \A i \in 1..Len(train.X) :
                        X_train_scaled.X[i][j] = [c |-> Int2F(0), sq |-> Int2F(1)]

\* one constant column next to one that is not
C23_Witness ==
    /\ Scaled
    /\ n_samples(train.X) = 2
    /\ n_features(train.X) = 2
    /\ Constant(column(train.X, 1))
    /\ ~Constant(column(train.X, 2))
    /\ X_train_scaled.X[1][1] = [c |-> Int2F(0), sq |-> Int2F(1)]

TestScaled == X_test_scaled # NoMatrix

\* C24: the parameters of the scaler are those of the training matrix, before
\* and after the test matrix is transformed, and the scaled test matrix is
\* (x - mean) / scale with the mean and scale of the training columns.
C24_ParamsFromTrainingOnly ==
    /\ scaler_for_ridge # NoScaler => scaler_for_ridge = StandardScaler_fit(train.X)
    /\ (TestScaled /\ X_test_scaled.status = "ok") =>
          \A i \in 1..Len(X_test_scaled.X_test) : \A j \in 1..n_features(train.X) :
              X_test_scaled.X[i][j] =
                  [c |-> FSub(X_test_scaled.X_test[i][j],
                              np_mean(column(train.X, j))),
                   sq |-> handle_zeros_in_scale(np_var(column(train.X, j)))]

\* a test matrix whose own mean is not the mean of the training matrix
C24_Witness ==
    /\ TestScaled
    /\ X_test_scaled.status = "ok"
    /\ n_samples(train.X) = 3
    /\ Len(X_test_scaled.X_test) = 3
    /\ ~Constant(column(train.X, 1))
    /\ np_mean(column(X_test_scaled.X_test, 1)) # scaler_for_ridge.mean_[1]
    /\ ~ScaledMeanZero(X_test_scaled.X, 1)

(***************************************************************************)
(* Calls and what they leave behind.  A call is given the arrays of its    *)
(* caller and the calls the process has made so far (ran); it yields what  *)
(* it returns together with the caller's arrays as they are after it.      *)
(***************************************************************************)
\* LinearRegression(), Ridge(alpha=0), Ridge(alpha=alpha_value)
Estimators ==
    {[kind |-> "LinearRegression"]} \cup {[kind |-> "Ridge", alpha |-> a] : a \in Alphas}

\* a new estimator with the parameters of m
clone(m) ==
    IF m.kind = "Ridge" THEN [kind |-> "Ridge", alpha |-> m.alpha]
    ELSE [kind |-> "LinearRegression"]

fitted(est, X, y) ==
    IF est.kind = "Ridge" THEN est @@ Ridge_fit(X, y, est.alpha)
    ELSE est @@ LinearRegression_fit(X, y)

\* warm start: a fit that starts from the coefficients of the last fit the
\* process made and stops half way to the solution
fit_call_warm_start(history, est, X, y) ==
    LET f == fitted(est, X, y)
        last == history[Len(history)]
    IN  [est |-> IF history = <<>> THEN f
                 ELSE [f EXCEPT !.coef_ = [j \in 1..Len(f.coef_) |->
                          FMul(Rat(1, 2), FAdd(f.coef_[j], last.coef_[j]))]],
         X |-> X, y |-> y]

\* copy_X=False: a fit that centres the caller's X in place
fit_call_inplace(history, est, X, y) ==
    [est |-> fitted(est, X, y), X |-> centre_X(X), y |-> y]

\* est.fit(X, y), copy_X=True: works on copies, reads nothing but est, X, y
fit_call(history, est, X, y) ==
    [est |-> fitted(est, X, y), X |-> X, y |-> y]

\* m.predict(X)
predict_call(m, X) == [est |-> m, X |-> X, y_pred |-> predict(m, X)]

\* PolynomialFeatures(degree, include_bias=False).fit_transform(X)
expand_call(X, degree) ==
    [out |-> PolynomialFeatures(X, degree, FALSE, FALSE), X |-> X]

\* StandardScaler().fit_transform(X), copy=True
standardize_call(X) ==
    LET r == StandardScaler_transform(StandardScaler_fit(X), X)
    IN  [scaler |-> r.scaler, Z |-> r.Z, X |-> X]

\* the targets of another model
other_y(n) == [i \in 1..n |-> Int2F(i * i)]

InitCalls ==
    /\ ChiIdle
    /\ \E sh \in RegShapes : \E X \in Matrices(sh[1], sh[2]) :
          /\ sh[1] <= 2
          /\ train = [X |-> X, y |-> [i \in 1..sh[1] |-> true_line(X[i][1])]]
    /\ model = NoModel
    /\ ridge_model = NoModel
    /\ pred = NoPred
    /\ coefs_ridge_path = <<>>
    /\ ridge_path_model = NoModel
    /\ poly = NoPoly
    /\ AuxIdle

\* model = <estimator>; model.fit(X_train, y_train)
FirstFit ==
    /\ model = NoModel
    /\ \E est \in Estimators :
          LET r == fit_call(ran, est, train.X, train.y)
          IN  /\ model' = r.est
              /\ train' = [X |-> r.X, y |-> r.y]
              /\ ran' = Append(ran, r.est)
    /\ UNCHANGED <<ridge_model, pred, coefs_ridge_path, ridge_path_model, poly>>
    /\ UNCHANGED <<scaler_for_ridge, X_train_scaled, X_test_scaled, refit, notebook>>
    /\ UNCHANGED chivars

\* ridge_model = Ridge(alpha=alpha_value); ridge_model.fit(X_train, <other targets>)
OtherFit ==
    /\ model # NoModel
    /\ refit = NoModel
    /\ ridge_model = NoModel
    /\ LET r == fit_call(ran, [kind |-> "Ridge", alpha |-> Int2F(1)],
                         train.X, other_y(Len(train.y)))
       IN  /\ ridge_model' = r.est
           /\ train' = [X |-> r.X, y |-> train.y]
           /\ ran' = Append(ran, r.est)
    /\ UNCHANGED <<model, pred, coefs_ridge_path, ridge_path_model, poly>>
    /\ UNCHANGED <<scaler_for_ridge, X_train_scaled, X_test_scaled, refit, notebook>>
    /\ UNCHANGED chivars

\* y_pred = model.predict(X_test)
PredictCall ==
    /\ model # NoModel
    /\ refit = NoModel
    /\ pred = NoPred
    /\ LET r == predict_call(model, TestData(n_features(train.X)))
       IN  /\ model' = r.est
           /\ pred' = [status |-> "done", X_test |-> r.X, y_pred_test |-> r.y_pred]
    /\ UNCHANGED <<train, ridge_model, coefs_ridge_path, ridge_path_model, poly>>
    /\ UNCHANGED auxvars
    /\ UNCHANGED chivars

\* chi2_contingency(contingency_table_survey), between the two fits
AnalyzeCall ==
    /\ model # NoModel
    /\ refit = NoModel
    /\ res = NoResult
    /\ observed' = contingency_table_survey
    /\ res' = chi2_contingency(contingency_table_survey)
    /\ UNCHANGED <<assoc, pv, printed, ns, out, exc>>
    /\ UNCHANGED regvars
    /\ UNCHANGED auxvars

\* PolynomialFeatures(degree=2, include_bias=False).fit_transform(X_train)
ExpandCall ==
    /\ model # NoModel
    /\ refit = NoModel
    /\ poly = NoPoly
    /\ LET r == expand_call(train.X, 2)
       IN  /\ poly' = r.out
           /\ train' = [X |-> r.X, y |-> train.y]
    /\ UNCHANGED <<model, ridge_model, pred, coefs_ridge_path, ridge_path_model>>
    /\ UNCHANGED auxvars
    /\ UNCHANGED chivars

\* StandardScaler().fit_transform(X_train)
StandardizeCall ==
    /\ model # NoModel
    /\ refit = NoModel
    /\ scaler_for_ridge = NoScaler
    /\ LET r == standardize_call(train.X)
       IN  /\ scaler_for_ridge' = r.scaler
           /\ X_train_scaled' = r.Z
           /\ train' = [X |-> r.X, y |-> train.y]
    /\ UNCHANGED <<model, ridge_model, pred, coefs_ridge_path, ridge_path_model, poly>>
    /\ UNCHANGED <<X_test_scaled, refit, notebook, ran>>
    /\ UNCHANGED chivars

\* a second estimator with the parameters of the first, fitted on the same arrays
Refit ==
    /\ model # NoModel
    /\ refit = NoModel
    /\ LET r == fit_call(ran, clone(model), train.X, train.y)
       IN  /\ refit' = r.est
           /\ train' = [X |-> r.X, y |-> r.y]
           /\ ran' = Append(ran, r.est)
    /\ UNCHANGED <<model, ridge_model, pred, coefs_ridge_path, ridge_path_model, poly>>
    /\ UNCHANGED <<scaler_for_ridge, X_train_scaled, X_test_scaled, notebook>>
    /\ UNCHANGED chivars

NextCalls ==
    \/ FirstFit
    \/ OtherFit
    \/ PredictCall
    \/ AnalyzeCall
    \/ ExpandCall
    \/ StandardizeCall
    \/ Refit

SpecCalls == InitCalls /\ [][NextCalls]_vars

(***************************************************************************)
(* Claims about repeated calls (SpecCalls)                                 *)
(***************************************************************************)
Refitted == refit # NoModel

C26_CallsLeaveArgumentsUnchanged ==
    [][/\ train' = train
       /\ model # NoModel => model' = model
       /\ ridge_model # NoModel => ridge_model' = ridge_model
       /\ refit # NoModel => refit' = refit
       /\ pred' # NoPred => pred'.X_test = TestData(n_features(train.X))]_vars

\* every call was made; the matrix is not centred to begin with
C26_Witness ==
    /\ Refitted
    /\ ridge_model # NoModel
    /\ pred # NoPred
    /\ poly # NoPoly
    /\ scaler_for_ridge # NoScaler
    /\ centre_X(train.X) # train.X
    /\ model.kind = "LinearRegression"

(***************************************************************************)
(* Claims about the significance level (Spec)                              *)
(***************************************************************************)
\* the four tests of the notebook: the table and the names of the results
Examples ==
    {[table |-> observed_gender_product,
      stat |-> "chi2_stat", p |-> "p_value", dof |-> "dof"],
     [table |-> observed_smoking_disease,
      stat |-> "chi2_stat_sd", p |-> "p_value_sd", dof |-> "dof_sd"],
     [table |-> observed_education_news,
      stat |-> "chi2_stat_en", p |-> "p_value_en", dof |-> "dof_en"],
     [table |-> contingency_table_survey,
      stat |-> "chi2_stat_survey", p |-> "p_value_survey", dof |-> "dof_survey"]}

\* in every state: alpha, once bound, is 0.05, and the results bound for an
\* example are those of chi2_contingency on its own table
OwnResults ==
    /\ Bound("alpha") => ns.alpha = Rat(1, 20)
    /\ \A e \in Examples :
          Bound(e.stat) =>
              LET r == chi2_contingency(e.table)
              IN  /\ Bound("alpha")
                  /\ ns[e.stat] = r.chi2
                  /\ ns[e.p] = r.p
                  /\ ns[e.dof] = r.dof

\* a run of the test cell A that completes prints the decision of its own
\* p-value against 0.05 and leaves alpha bound to 0.05
Decides(A, table) ==
    (A /\ exc' = "") =>
        /\ out' = interpretation(chi2_contingency(table).p, Rat(1, 20))
        /\ ns'.alpha = Rat(1, 20)

\* C27: in any order of running and re-running the cells, the threshold of
\* every decision is the 0.05 its own cell assigns, and the statistic,
\* p-value and degrees of freedom bound for one example are those of
\* chi2_contingency on that example's table, whatever other cells ran.
C27_AlphaAtInterpretation ==
    /\ []OwnResults
    /\ [][/\ Decides(Cell3, observed_gender_product)
          /\ Decides(Cell5, observed_smoking_disease)
          /\ Decides(Cell7, observed_education_news)
          /\ Decides(Cell11, contingency_table_survey)]_vars

\* all four examples have run, the strong one last; its decision is not the
\* decision of the weak one
C27_Witness ==
    /\ \A e \in Examples : Bound(e.stat)
    /\ exc = ""
    /\ out = interpretation(ns.p_value_sd, ns.alpha)
    /\ out # interpretation(ns.p_value, ns.alpha)
    /\ ns.chi2_stat # ns.chi2_stat_sd

(***************************************************************************)
(* The three notebooks as kernels.  A cell is the unit the kernel          *)
(* compiles: syntax is the error of its compilation ("" when it compiles). *)
(* Its statements are grouped in units: reads are the names a unit reads   *)
(* that the cell has not bound before, binds the names it assigns.  The    *)
(* units of the KDE notebook also carry what they compute (op, args); the  *)
(* others only bind.                                                       *)
(***************************************************************************)
\* the code cells of the chi-square notebook
part_000 ==
    <<
     \* cell 1 (line 85)
     [syntax |-> "",
      units |-> <<
          [reads |-> {},
           binds |-> {"np", "chi2_contingency"},
           op |-> "run", args |-> [n |-> 0]]
      >>],
     \* cell 2 (line 98)
     [syntax |-> "",
      units |-> <<
          [reads |-> {"np"},
           binds |-> {"observed_gender_product"},
           op |-> "run", args |-> [n |-> 0]]
      >>],
     \* cell 3 (line 116)
     [syntax |-> "",
      units |-> <<
          [reads |-> {"chi2_contingency", "observed_gender_product"},
           binds |-> {"chi2_stat", "p_value", "dof", "expected_freq", "alpha"},
           op |-> "run", args |-> [n |-> 0]]
      >>],
     \* cell 4 (line 188)
     [syntax |-> "",
      units |-> <<
          [reads |-> {"np"},
           binds |-> {"observed_smoking_disease"},
           op |-> "run", args |-> [n |-> 0]]
      >>],
     \* cell 5 (line 206)
     [syntax |-> "",
      units |-> <<
          [reads |-> {"chi2_contingency", "observed_smoking_disease"},
           binds |-> {"chi2_stat_sd", "p_value_sd", "dof_sd",
                      "expected_freq_sd", "alpha"},
           op |-> "run", args |-> [n |-> 0]]
      >>],
     \* cell 6 (line 246)
     [syntax |-> "",
      units |-> <<
          [reads |-> {"np"},
           binds |-> {"observed_education_news"},
           op |-> "run", args |-> [n |-> 0]]
      >>],
     \* cell 7 (line 267)
     [syntax |-> "",
      units |-> <<
          [reads |-> {"chi2_contingency", "observed_education_news"},
           binds |-> {"chi2_stat_en", "p_value_en", "dof_en",
                      "expected_freq_en", "alpha"},
           op |-> "run", args |-> [n |-> 0]]
      >>],
     \* cell 8 (line 307)
     [syntax |-> "",
      units |-> <<
          [reads |-> {},
           binds |-> {"pd"},
           op |-> "run", args |-> [n |-> 0]]
      >>],
     \* cell 9 (line 319)
     [syntax |-> "",
      units |-> <<
          [reads |-> {},
           binds |-> {"data"},
           op |-> "run", args |-> [n |-> 0]],
          [reads |-> {"pd"},
           binds |-> {"df_survey"},
           op |-> "run", args |-> [n |-> 0]]
      >>],
     \* cell 10 (line 339)
     [syntax |-> "",
      units |-> <<
          [reads |-> {"pd", "df_survey"},
           binds |-> {"contingency_table_survey"},
           op |-> "run", args |-> [n |-> 0]]
      >>],
     \* cell 11 (line 354)
     [syntax |-> "",
      units |-> <<
          [reads |-> {"chi2_contingency", "contingency_table_survey"},
           binds |-> {"chi2_stat_survey", "p_value_survey", "dof_survey",
                      "expected_freq_survey", "alpha"},
           op |-> "run", args |-> [n |-> 0]]
      >>],
     \* cell 12 (line 409)
     [syntax |-> "",
      units |-> <<
          [reads |-> {"observed_smoking_disease"},
           binds |-> {"n_sd"},
           op |-> "run", args |-> [n |-> 0]],
          [reads |-> {"np", "chi2_stat_sd"},
           binds |-> {"phi_sd", "min_dim_sd", "cramers_v_sd"},
           op |-> "run", args |-> [n |-> 0]]
      >>]
    >>

\* the code cells of DA4.ipynb
DA4 ==
    <<
     \* cell 1 (line 67)
     [syntax |-> "IndentationError",
      units |-> <<
          [reads |-> {},
           binds |-> {"np", "pd", "plt", "sns", "LinearRegression",
                      "train_test_split", "mean_squared_error", "r2_score",
                      "X_slr_feature", "y_slr_target", "X_slr_train",
                      "X_slr_test", "y_slr_train", "y_slr_test", "slr_model"},
           op |-> "run", args |-> [n |-> 0]]
      >>],
     \* cell 2 (line 121)
     [syntax |-> "IndentationError",
      units |-> <<
          [reads |-> {"slr_model"},
           binds |-> {"estimated_intercept_slr", "estimated_coefficient_slr"},
           op |-> "run", args |-> [n |-> 0]],
          [reads |-> {"X_slr_train"},
           binds |-> {"y_slr_pred_train"},
           op |-> "run", args |-> [n |-> 0]],
          [reads |-> {"X_slr_test"},
           binds |-> {"y_slr_pred_test"},
           op |-> "run", args |-> [n |-> 0]]
      >>],
     \* cell 3 (line 155)
     [syntax |-> "IndentationError",
      units |-> <<
          [reads |-> {"plt"},
           binds |-> {},
           op |-> "run", args |-> [n |-> 0]],
          [reads |-> {"X_slr_test", "y_slr_test"},
           binds |-> {},
           op |-> "run", args |-> [n |-> 0]],
          [reads |-> {"y_slr_pred_test"},
           binds |-> {},
           op |-> "run", args |-> [n |-> 0]]
      >>],
     \* cell 4 (line 187)
     [syntax |-> "IndentationError",
      units |-> <<
          [reads |-> {"plt"},
           binds |-> {},
           op |-> "run", args |-> [n |-> 0]],
          [reads |-> {"pd", "X_slr_test", "y_slr_test"},
           binds |-> {"df_slr_test"},
           op |-> "run", args |-> [n |-> 0]],
          [reads |-> {"sns"},
           binds |-> {},
           op |-> "run", args |-> [n |-> 0]]
      >>],
     \* cell 5 (line 227)
     [syntax |-> "IndentationError",
      units |-> <<
          [reads |-> {"np"},
           binds |-> {},
           op |-> "run", args |-> [n |-> 0]],
          [reads |-> {"pd"},
           binds |-> {"X_mlr_features_df", "y_mlr_target"},
           op |-> "run", args |-> [n |-> 0]],
          [reads |-> {"train_test_split"},
           binds |-> {"X_mlr_train", "X_mlr_test", "y_mlr_train",
                      "y_mlr_test"},
           op |-> "run", args |-> [n |-> 0]],
          [reads |-> {"LinearRegression"},
           binds |-> {"mlr_model"},
           op |-> "run", args |-> [n |-> 0]]
      >>],
     \* cell 6 (line 266)
     [syntax |-> "IndentationError",
      units |-> <<
          [reads |-> {"mlr_model"},
           binds |-> {"estimated_intercept_mlr", "estimated_coefficients_mlr"},
           op |-> "run", args |-> [n |-> 0]],
          [reads |-> {"pd", "X_mlr_features_df"},
           binds |-> {"coeffs_df"},
           op |-> "run", args |-> [n |-> 0]],
          [reads |-> {"X_mlr_test"},
           binds |-> {"y_mlr_pred_test"},
           op |-> "run", args |-> [n |-> 0]]
      >>],
     \* cell 7 (line 322)
     [syntax |-> "IndentationError",
      units |-> <<
          [reads |-> {},
           binds |-> {"PolynomialFeatures", "Pipeline"},
           op |-> "run", args |-> [n |-> 0]],
          [reads |-> {"np"},
           binds |-> {"X_poly_feature", "y_poly_target"},
           op |-> "run", args |-> [n |-> 0]],
          [reads |-> {"train_test_split"},
           binds |-> {"X_poly_train", "X_poly_test", "y_poly_train",
                      "y_poly_test", "degree"},
           op |-> "run", args |-> [n |-> 0]],
          [reads |-> {"LinearRegression"},
           binds |-> {"poly_reg_pipeline", "y_poly_pred_test",
                      "linear_regressor_in_pipe"},
           op |-> "run", args |-> [n |-> 0]]
      >>],
     \* cell 8 (line 377)
     [syntax |-> "IndentationError",
      units |-> <<
          [reads |-> {"plt"},
           binds |-> {},
           op |-> "run", args |-> [n |-> 0]],
          [reads |-> {"X_poly_train", "y_poly_train"},
           binds |-> {},
           op |-> "run", args |-> [n |-> 0]],
          [reads |-> {"X_poly_test", "y_poly_test"},
           binds |-> {},
           op |-> "run", args |-> [n |-> 0]],
          [reads |-> {"np", "X_poly_feature"},
           binds |-> {"X_plot_range"},
           op |-> "run", args |-> [n |-> 0]],
          [reads |-> {"poly_reg_pipeline"},
           binds |-> {"y_plot_pred_poly"},
           op |-> "run", args |-> [n |-> 0]],
          [reads |-> {"degree"},
           binds |-> {},
           op |-> "run", args |-> [n |-> 0]],
          [reads |-> {"LinearRegression"},
           binds |-> {"simple_lin_reg_on_poly", "y_plot_pred_simple"},
           op |-> "run", args |-> [n |-> 0]],
          [reads |-> {"y_poly_target"},
           binds |-> {},
           op |-> "run", args |-> [n |-> 0]]
      >>],
     \* cell 9 (line 447)
     [syntax |-> "IndentationError",
      units |-> <<
          [reads |-> {},
           binds |-> {"Ridge", "StandardScaler", "scaler_for_ridge"},
           op |-> "run", args |-> [n |-> 0]],
          [reads |-> {"X_mlr_train"},
           binds |-> {"X_mlr_train_scaled"},
           op |-> "run", args |-> [n |-> 0]],
          [reads |-> {"X_mlr_test"},
           binds |-> {"X_mlr_test_scaled", "alpha_value", "ridge_model"},
           op |-> "run", args |-> [n |-> 0]],
          [reads |-> {"y_mlr_train"},
           binds |-> {},
           op |-> "run", args |-> [n |-> 0]],
          [reads |-> {"pd", "X_mlr_features_df"},
           binds |-> {"ridge_coeffs_df"},
           op |-> "run", args |-> [n |-> 0]],
          [reads |-> {"LinearRegression"},
           binds |-> {"ols_on_scaled_data", "ols_coeffs_scaled_df",
                      "y_ridge_pred_test"},
           op |-> "run", args |-> [n |-> 0]]
      >>],
     \* cell 10 (line 497)
     [syntax |-> "IndentationError",
      units |-> <<
          [reads |-> {},
           binds |-> {"n_alphas"},
           op |-> "run", args |-> [n |-> 0]],
          [reads |-> {"np"},
           binds |-> {"alphas_range", "coefs_ridge_path"},
           op |-> "run", args |-> [n |-> 0]],
          [reads |-> {"Ridge", "X_mlr_train_scaled", "y_mlr_train"},
           binds |-> {"current_alpha", "ridge_path_model"},
           op |-> "run", args |-> [n |-> 0]],
          [reads |-> {"plt"},
           binds |-> {"ax"},
           op |-> "run", args |-> [n |-> 0]],
          [reads |-> {"X_mlr_features_df"},
           binds |-> {},
           op |-> "run", args |-> [n |-> 0]]
      >>]
    >>

\* the code cells of the KDE notebook
KDE ==
    <<
     \* cell 1 (line 44)
     [syntax |-> "",
      units |-> <<
          [reads |-> {},
           binds |-> {"npy", "pds", "sns", "plt", "train_test_split",
                      "LinearRegression", "mean_absolute_error"},
           op |-> "run", args |-> [n |-> 0]]
      >>],
     \* cell 2 (line 71)
     [syntax |-> "",
      units |-> <<
          [reads |-> {"npy"},
           binds |-> {"x_feature", "y_target"},
           op |-> "rand", args |-> [n |-> 100]],
          [reads |-> {"pds"},
           binds |-> {"data"},
           op |-> "frame", args |-> [X |-> "x_feature", Y |-> "y_target"]]
      >>],
     \* cell 3 (line 99)
     [syntax |-> "",
      units |-> <<
          [reads |-> {"train_test_split", "data"},
           binds |-> {"X_train", "X_test", "y_train", "y_test"},
           op |-> "split", args |-> [frame |-> "data", X |-> <<"X">>, y |-> "Y",
                                         test_size |-> Rat(1, 5)]]
      >>],
     \* cell 4 (line 131)
     [syntax |-> "",
      units |-> <<
          [reads |-> {"LinearRegression"},
           binds |-> {"model"},
           op |-> "new", args |-> [est |-> "model"]],
          [reads |-> {"X_train", "y_train"},
           binds |-> {},
           op |-> "fit", args |-> [est |-> "model", X |-> "X_train",
                                       y |-> "y_train"]],
          [reads |-> {"X_test"},
           binds |-> {"y_pred"},
           op |-> "predict", args |-> [est |-> "model", X |-> "X_test"]],
          [reads |-> {"y_test"},
           binds |-> {},
           op |-> "run", args |-> [n |-> 0]]
      >>],
     \* cell 5 (line 162)
     [syntax |-> "",
      units |-> <<
          [reads |-> {"plt"},
           binds |-> {},
           op |-> "run", args |-> [n |-> 0]],
          [reads |-> {"sns", "y_test"},
           binds |-> {},
           op |-> "run", args |-> [n |-> 0]],
          [reads |-> {"y_pred"},
           binds |-> {},
           op |-> "run", args |-> [n |-> 0]]
      >>]
    >>

Notebooks == {"part_000", "DA4", "KDE"}

CodeCells(nb) ==
    CASE nb = "part_000" -> part_000
      [] nb = "DA4" -> DA4
      [] nb = "KDE" -> KDE

\* the names a cell reads that it has not bound itself
names_read(cell) == UNION {cell.units[i].reads : i \in 1..Len(cell.units)}

Obj == [kind |-> "object"]

bind(names, v, env) == [x \in names |-> v] @@ env

\* the shuffles that stand for the permutation of random_state=42
Rotations == {0, 1, 37}

permutation(n, r) == [i \in 1..n |-> ((i + r - 1) % n) + 1]

\* math.ceil of a positive fraction
ceil(q) == (q.n + q.d - 1) \div q.d

\* train_test_split: n_test = ceil(test_size * n) shuffled rows for the test
\* part, the n - n_test others for the training part
train_test_split(rows, test_size, r) ==
    LET n == Cardinality(rows)
        n_test == ceil(FMul(test_size, Int2F(n)))
        perm == permutation(n, r)
    IN  [test |-> {perm[i] : i \in 1..n_test},
         train |-> {perm[i] : i \in (n_test + 1)..n}]

Done(env) == [ns |-> env, exc |-> ""]

Raised(env, e) == [ns |-> env, exc |-> e]

\* one unit run in the namespace env
exec(u, env, r) ==
    IF ~(u.reads \subseteq DOMAIN env) THEN Raised(env, "NameError")
    ELSE CASE u.op = "run" -> Done(bind(u.binds, Obj, env))
           [] u.op = "rand" ->
                Done(bind(u.binds, [kind |-> "array", rows |-> 1..u.args.n,
                                    columns |-> <<>>], env))
           [] u.op = "frame" ->
                IF env[u.args.X].rows # env[u.args.Y].rows
                THEN Raised(env, "ValueError")
                ELSE Done(bind(u.binds, [kind |-> "frame", rows |-> env[u.args.X].rows,
                                         columns |-> <<"X", "Y">>], env))
           [] u.op = "split" ->
                LET parts == train_test_split(env[u.args.frame].rows,
                                              u.args.test_size, r)
                    part(rows, cols) ==
                        [kind |-> "frame", rows |-> rows, columns |-> cols]
                IN  Done([X_train |-> part(parts.train, u.args.X),
                          X_test |-> part(parts.test, u.args.X),
                          y_train |-> part(parts.train, <<u.args.y>>),
                          y_test |-> part(parts.test, <<u.args.y>>)] @@ env)
           [] u.op = "new" ->
                Done(bind(u.binds, [kind |-> "LinearRegression", fitted |-> FALSE], env))
           [] u.op = "fit" ->
                LET X == env[u.args.X]
                    y == env[u.args.y]
                IN  IF X.rows = {} \/ X.rows # y.rows THEN Raised(env, "ValueError")
                    ELSE Done(bind({u.args.est},
                                   [kind |-> "LinearRegression", fitted |-> TRUE,
                                    rows |-> X.rows,
                                    n_features_in_ |-> Len(X.columns)], env))
           [] u.op = "predict" ->
                LET est == env[u.args.est]
                    X == env[u.args.X]
                IN  IF ~est.fitted THEN Raised(env, "NotFittedError")
                    ELSE IF Len(X.columns) # est.n_features_in_
                    THEN Raised(env, "ValueError")
                    ELSE Done(bind(u.binds, [kind |-> "array", rows |-> X.rows,
                                             columns |-> <<>>,
                                             by |-> est], env))

RECURSIVE run_units(_, _, _, _)
\* the units from the i-th on, up to the first that raises
run_units(units, i, env, r) ==
    IF i > Len(units) THEN Done(env)
    ELSE LET step == exec(units[i], env, r)
         IN  IF step.exc # "" THEN step ELSE run_units(units, i + 1, step.ns, r)

\* a cell is compiled, then run
run_cell(cell, env, r) ==
    IF cell.syntax # "" THEN Raised(env, cell.syntax)
    ELSE run_units(cell.units, 1, env, r)

NoRuns == [next |-> 1]

InitKernel ==
    /\ notebook \in Notebooks
    /\ ran = NoRuns
    /\ ns = NoNames
    /\ out = ""
    /\ exc = ""
    /\ observed = <<>>
    /\ res = NoResult
    /\ assoc = NoAssoc
    /\ pv = exact_p(Int2F(1))
    /\ printed = ""
    /\ train = NoData
    /\ model = NoModel
    /\ ridge_model = NoModel
    /\ pred = NoPred
    /\ coefs_ridge_path = <<>>
    /\ ridge_path_model = NoModel
    /\ poly = NoPoly
    /\ scaler_for_ridge = NoScaler
    /\ X_train_scaled = NoMatrix
    /\ X_test_scaled = NoMatrix
    /\ refit = NoModel

\* the user runs cell k; ran.next is the cell a run in document order runs
\* next, 0 once a cell was run out of that order
RunCell ==
    \E k \in 1..Len(CodeCells(notebook)) : \E r \in Rotations :
        LET done == run_cell(CodeCells(notebook)[k], ns, r)
        IN  /\ ns' = done.ns
            /\ exc' = done.exc
            /\ out' = ""
            /\ ran' = [next |-> IF ran.next = k THEN k + 1 ELSE 0]
            /\ UNCHANGED <<observed, res, assoc, pv, printed>>
            /\ UNCHANGED regvars
            /\ UNCHANGED <<scaler_for_ridge, X_train_scaled, X_test_scaled,
                           refit, notebook>>

NextKernel == RunCell

SpecKernel == InitKernel /\ [][NextKernel]_vars

(***************************************************************************)
(* Claims about running the notebooks (SpecKernel)                         *)
(***************************************************************************)
\* the cells run so far were run once each, in document order
InOrder == ran.next > 0

\* the run in document order has run every cell
RunThrough == ran.next = Len(CodeCells(notebook)) + 1

\* C28: in a run in document order every name a cell run so far reads is
\* bound (by that cell or an earlier one) and no cell stops at an unbound
\* name; an undefined-name error is only reached out of document order.
C28_DocumentOrder ==
    /\ InOrder =>
          \A k \in 1..(ran.next - 1) :
              names_read(CodeCells(notebook)[k]) \subseteq DOMAIN ns
    /\ exc = "NameError" => ~InOrder

\* what holds of the notebooks whose cells compile
C28_CompilingNotebooks == notebook # "DA4" => C28_DocumentOrder

\* the estimators the notebook fits, with the rows and features the training
\* set of each is to have
ExpectedFits(nb) ==
    CASE nb = "DA4" -> {[est |-> "slr_model", n |-> 40, p |-> 1],
                        [est |-> "mlr_model", n |-> 75, p |-> 3],
                        [est |-> "poly_reg_pipeline", n |-> 49, p |-> 2]}
      [] nb = "KDE" -> {[est |-> "model", n |-> 80, p |-> 1]}
      [] nb = "part_000" -> {}

FittedEstimators ==
    {x \in DOMAIN ns : ns[x].kind = "LinearRegression" /\ ns[x].fitted}

\* C29: every fit is given at least p + 1 rows, and once a notebook has run
\* in document order its models are fitted on training sets of 40 rows and 1
\* feature, 75 and 3, 49 and 2 (DA4), 80 and 1 (KDE).
C29_TrainingSets ==
    /\ \A x \in FittedEstimators :
          Cardinality(ns[x].rows) >= ns[x].n_features_in_ + 1
    /\ RunThrough =>
          \A f \in ExpectedFits(notebook) :
              /\ f.est \in FittedEstimators
              /\ Cardinality(ns[f.est].rows) = f.n
              /\ ns[f.est].n_features_in_ = f.p
              /\ f.n >= f.p + 1

\* what holds of the notebooks whose cells compile
C29_CompilingNotebooks == notebook # "DA4" => C29_TrainingSets

\* the predictions the notebook makes: the model, the parts of its split and
\* the samples that were split
ExpectedPredictions(nb) ==
    CASE nb = "DA4" -> {[y_pred |-> "y_slr_pred_test", est |-> "slr_model",
                         X_train |-> "X_slr_train", X_test |-> "X_slr_test",
                         all |-> "X_slr_feature"],
                        [y_pred |-> "y_mlr_pred_test", est |-> "mlr_model",
                         X_train |-> "X_mlr_train", X_test |-> "X_mlr_test",
                         all |-> "X_mlr_features_df"],
                        [y_pred |-> "y_poly_pred_test", est |-> "poly_reg_pipeline",
                         X_train |-> "X_poly_train", X_test |-> "X_poly_test",
                         all |-> "X_poly_feature"]}
      [] nb = "KDE" -> {[y_pred |-> "y_pred", est |-> "model",
                         X_train |-> "X_train", X_test |-> "X_test",
                         all |-> "data"]}
      [] nb = "part_000" -> {}

\* C30: in a run in document order no predict comes before the fit of its
\* model, and once a regression notebook has run through, every prediction
\* was made by a fitted model on the test part, the model was fitted on the
\* training part only, and the two parts are disjoint and cover the samples.
C30_FitBeforePredict ==
    /\ InOrder => exc # "NotFittedError"
    /\ RunThrough =>
          \A e \in ExpectedPredictions(notebook) :
              /\ {e.y_pred, e.est, e.X_train, e.X_test, e.all} \subseteq DOMAIN ns
              /\ ns[e.y_pred].by.fitted
              /\ ns[e.y_pred].rows = ns[e.X_test].rows
              /\ ns[e.est].rows = ns[e.X_train].rows
              /\ ns[e.X_train].rows \cap ns[e.X_test].rows = {}
              /\ ns[e.X_train].rows \cup ns[e.X_test].rows = ns[e.all].rows

\* what holds of the notebooks whose cells compile
C30_CompilingNotebooks == notebook # "DA4" => C30_FitBeforePredict

====
